---------------------------- MODULE Spec2Model ----------------------------
(***************************************************************************)
(* Model of the Notion weekly-report generator:                            *)
(*   - NotionClient (src/src/client.py): cursor pagination                 *)
(*     (query_database_all, get_page_content_flat) and the recursive,      *)
(*     depth-bounded get_block_tree, run against a content store that may  *)
(*     fail any request;                                                   *)
(*   - DateUtils (src/src/date_utils.py) and WeeklyManager                 *)
(*     (src/src/weekly_manager.py): the week-number policies and the       *)
(*     week buckets.                                                       *)
(***************************************************************************)
EXTENDS Integers, Sequences, FiniteSets, TLC

VARIABLES
    pc,          \* client: "idle" | "running" | "returned" | "raised"
    op,          \* client: the NotionClient method that was called
    store,       \* client: the content store the call runs against
    max_depth,   \* client: get_block_tree's max_depth argument
    stack,       \* client: activation frames, the innermost last
    log,         \* client: the requests the running or last call sent to
                 \* the store, in order
    result,      \* client: the list the outermost call returned
    nfail,       \* client: number of requests of log that failed
    nrun,        \* client: number of pagination runs started for log
    weekly_pages,             \* WeeklyManager.weekly_pages: week -> pages
    week_calculation_method,  \* WeeklyManager.week_calculation_method
    PROJECT_START_DATE,       \* DateUtils.PROJECT_START_DATE (class attribute)
    last_pages,               \* the list given to the last analyze_pages_by_week
    last_method,              \* the active method at that call
    last_start_date,          \* PROJECT_START_DATE at that call
    raised,                   \* what the last WeeklyManager call raised
    called,                   \* the running or last WeeklyManager / DateUtils call
    dropped,                  \* the last analyze_pages_by_week removed a key
    summarizer,               \* WeeklyManager.summarizer is set (not None)
    supplied,                 \* the start date this manager's owner last set
    argument,                 \* DateUtils call / week query: its argument
    returned,                 \* what the last call returned
    with_dates,               \* generate_week_report: the dates it was passed
    query                     \* the WeeklyManager query that is running

clientVars == <<pc, op, store, max_depth, stack, log, result, nfail, nrun>>

weeklyVars == <<weekly_pages, week_calculation_method, PROJECT_START_DATE,
                last_pages, last_method, last_start_date, raised, called,
                dropped, summarizer, supplied, argument, returned,
                with_dates, query>>

vars == <<pc, op, store, max_depth, stack, log, result, nfail, nrun,
          weekly_pages, week_calculation_method, PROJECT_START_DATE,
          last_pages, last_method, last_start_date, raised, called,
          dropped, summarizer, supplied, argument, returned,
          with_dates, query>>

-----------------------------------------------------------------------------
(* Bounds of the model *)

\* max_depth is drawn from 0..MaxDepthArg
MaxDepthArg == 3
\* the store serves pages of 1..MaxPageLen items
MaxPageLen == 2
\* at most MaxFailures requests fail in one call
MaxFailures == 2
\* at most MaxRequests requests are sent in one call
MaxRequests == 8
\* analyze_pages_by_week is given lists of at most MaxPages pages
MaxPages == 2
\* the DateUtils functions are called on the dates of MaxDays + 1 days
MaxDays == 250
\* get_week_summary is called on the week numbers -1..MaxWeek
MaxWeek == 14
\* the weeks 0..MaxQueryWeek are asked for
MaxQueryWeek == 3
\* at most MaxQueryFailures of the calls that one query of the manager makes
\* to the store and to the summarizer fail
MaxQueryFailures == 1

-----------------------------------------------------------------------------
(* Python values *)

\* Python's None as a cursor value
None == "None"

\* a Python value with the name of its type; values of different types are
\* never equal
Py(type, value) == <<type, value>>

PyNone == Py("NoneType", None)

ValueOf(v) == v[2]

\* `if start_cursor:` -- None and the empty string are falsy
Truthy(c) == c \notin {None, ""}

Min(a, b) == IF a < b THEN a ELSE b

\* the locals of the running WeeklyManager query; name = "none": no query is
\* running
NoQuery ==
    [name |-> "none", week_number |-> 0, summary_type |-> "none",
     at |-> "none", i |-> 0, all_content |-> <<>>, summaries |-> <<>>]

-----------------------------------------------------------------------------
(* The content store (the Notion API behind _make_request) *)

\* the id of the database / page / root block a call starts from
RootId == 1

\* parent id -> ordered ids of its direct children
KidsShapes ==
    { << <<2, 3, 4>>, <<5>>, <<>>, <<>>, <<>> >>,     \* wide, one grandchild
      << <<2>>, <<3>>, <<4>>, <<5>>, <<>> >>,         \* a chain
      << <<2, 3>>, <<>>, <<4, 5>>, <<>>, <<>> >>,     \* second child has two
      << <<2>>, <<3>>, <<2>>, <<>>, <<>> >>,          \* cyclic: 2 -> 3 -> 2
      << <<>>, <<>>, <<>>, <<>>, <<>> >> }            \* nothing below the root

\* how the store fills has_children
FlagModes == {"truthful", "allTrue", "allFalse"}

\* how the store fills next_cursor on a page with has_more = true
CursorModes == {"ok", "missing", "empty", "repeat"}

\* a block object of the API: its type and, under the key of its type, the
\* rich_text (the plain_text of each part), checked and language (the
\* characters of the name); a key the API leaves out holds the default the
\* renderer reads it with
Block(type, rich_text, checked, language) ==
    [type |-> type,
     data |-> [rich_text |-> rich_text, checked |-> checked,
               language |-> language]]

\* a paragraph whose rich_text is the parts rich_text
Paragraph(rich_text) == Block("paragraph", rich_text, FALSE, <<>>)

\* the blocks of the shapes above: paragraphs without text
PlainBlocks == [id \in 1..5 |-> Paragraph(<<>>)]

Stores ==
    [kids : KidsShapes, flags : FlagModes, cursors : CursorModes,
     k : 1..MaxPageLen, blocks : {PlainBlocks}]

\* the cursor tokens the store hands out: Tokens[p] starts page p (0-based)
Tokens == <<"c1", "c2", "c3", "c4", "c5">>

PageIndex(start_cursor) ==
    IF start_cursor = "absent" THEN 0
    ELSE CHOOSE p \in 1..Len(Tokens) : Tokens[p] = start_cursor

HasChildrenFlag(s, id) ==
    CASE s.flags = "truthful" -> s.kids[id] # <<>>
      [] s.flags = "allTrue"  -> TRUE
      [] OTHER                -> FALSE

\* an item as the store serves it: no "children" key yet
StoreItem(s, id) ==
    [id |-> id, has_children |-> HasChildrenFlag(s, id),
     has_key |-> FALSE, children |-> <<>>,
     type |-> s.blocks[id].type, data |-> s.blocks[id].data]

\* the JSON body of a 2xx answer to a children / query request
Response(s, parent, start_cursor) ==
    LET all  == s.kids[parent]
        p    == PageIndex(start_cursor)
        from == p * s.k + 1
        to   == Min((p + 1) * s.k, Len(all))
        more == to < Len(all)
    IN [results     |-> [j \in 1..(IF to >= from THEN to - from + 1 ELSE 0)
                            |-> StoreItem(s, all[from + j - 1])],
        has_more    |-> more,
        next_cursor |-> IF ~more THEN None
                        ELSE CASE s.cursors = "ok"      -> Tokens[p + 1]
                               [] s.cursors = "missing" -> None
                               [] s.cursors = "empty"   -> ""
                               [] OTHER -> Tokens[IF p = 0 THEN 1 ELSE p]]

-----------------------------------------------------------------------------
(* NotionClient *)

Ops == {"query_database_all", "get_page_content_flat", "get_block_tree"}

\* query_database / get_block_children: start_cursor is sent only if truthy
StartCursorParam(cursor) == IF Truthy(cursor) THEN cursor ELSE "absent"

\* get_block_tree line 135
DepthExhausted(current_depth, maxd) == current_depth >= maxd

\* get_block_tree line 149
ShouldDescend(block, current_depth, maxd) ==
    block.has_children /\ current_depth < maxd - 1

\* faulty variant: the recursive call of line 152 passes the depth on unchanged
ChildDepth_Same(current_depth) == current_depth

\* faulty variant: the recursive call of line 152 starts again at depth 0
ChildDepth_Reset(current_depth) == 0

\* get_block_tree line 152: the depth of the recursive call
ChildDepth(current_depth) == current_depth + 1

\* faulty variant: the page replaces the accumulated list instead of extending it
Extend_Overwrite(all_results, results) == results

\* all_results.extend(data["results"])
Extend(all_results, results) == all_results \o results

\* faulty variant: the flat loops swallow the error like get_block_tree does
CatchesRequestError_Always(o) == TRUE

\* only get_block_tree wraps its request in try/except NotionAPIError
CatchesRequestError(o) == o = "get_block_tree"

\* cursor = data.get("next_cursor")
NextCursor(data) == data.next_cursor

NoData == [results |-> <<>>, has_more |-> FALSE, next_cursor |-> None]

\* the locals of one activation at its first statement
NewFrame(block_id, current_depth, run) ==
    [block_id |-> block_id, current_depth |-> current_depth,
     children |-> <<>>, cursor |-> None, data |-> NoData, i |-> 0,
     at |-> "request", run |-> run]

\* faulty variant: the outermost activation runs on while a nested one is
\* still listing
Top_Outermost == stack[1]

\* the innermost activation, the only one that runs
Top == stack[Len(stack)]

\* `return children` of the innermost activation
Return(children) ==
    IF Len(stack) = 1
    THEN /\ pc' = "returned"
         /\ result' = children
         /\ stack' = <<>>
    ELSE LET n      == Len(stack) - 1
             parent == stack[n]
             block  == [parent.data.results[parent.i]
                          EXCEPT !.children = children, !.has_key = TRUE]
         IN /\ stack' = [SubSeq(stack, 1, n) EXCEPT ![n] =
                           [parent EXCEPT !.children = Append(@, block),
                                          !.i = @ + 1]]
            /\ UNCHANGED <<pc, result>>

\* query_database_all(database_id) / get_page_content_flat(page_id)
CallFlat(o, s) ==
    /\ pc = "idle"
    /\ o \in {"query_database_all", "get_page_content_flat"}
    /\ pc' = "running"
    /\ op' = o
    /\ store' = s
    /\ stack' = <<NewFrame(RootId, 0, 1)>>
    /\ nrun' = 1
    /\ UNCHANGED <<max_depth, log, result, nfail>>
    /\ UNCHANGED weeklyVars

\* get_block_tree(block_id, max_depth), current_depth = 0
CallGetBlockTree(s, maxd) ==
    /\ pc = "idle"
    /\ op' = "get_block_tree"
    /\ store' = s
    /\ max_depth' = maxd
    /\ IF DepthExhausted(0, maxd)
       THEN /\ pc' = "returned"
            /\ result' = <<>>
            /\ UNCHANGED <<stack, nrun>>
       ELSE /\ pc' = "running"
            /\ stack' = <<NewFrame(RootId, 0, 1)>>
            /\ nrun' = 1
            /\ UNCHANGED result
    /\ UNCHANGED <<log, nfail>>
    /\ UNCHANGED weeklyVars

\* the request of the loop head answers 2xx
RequestOk ==
    /\ pc = "running"
    /\ Top.at = "request"
    /\ Len(log) < MaxRequests
    /\ LET f    == Top
           sc   == StartCursorParam(f.cursor)
           data == Response(store, f.block_id, sc)
       IN /\ log' = Append(log, [run |-> f.run, block_id |-> f.block_id,
                                 level |-> Len(stack) - 1,
                                 start_cursor |-> sc, ok |-> TRUE])
          /\ IF op = "get_block_tree"
             THEN \* enter `for block in data["results"]`
                  /\ stack' = [stack EXCEPT ![Len(stack)] =
                                 [f EXCEPT !.data = data, !.i = 1,
                                           !.at = "for"]]
                  /\ UNCHANGED <<pc, result>>
             ELSE \* extend, then test has_more
                  LET all == Extend(f.children, data.results)
                  IN IF ~data.has_more
                     THEN /\ pc' = "returned"
                          /\ result' = all
                          /\ stack' = <<>>
                     ELSE /\ stack' = [stack EXCEPT ![Len(stack)] =
                                 [f EXCEPT !.children = all, !.data = data,
                                           !.cursor = NextCursor(data)]]
                          /\ UNCHANGED <<pc, result>>
    /\ UNCHANGED <<op, store, max_depth, nfail, nrun>>
    /\ UNCHANGED weeklyVars

\* the summaries of the running query for which the summarizer raised
FailedSummaries == {j \in DOMAIN query.summaries : query.summaries[j] = ""}

\* the number of failed requests explored in the running call: a call of the
\* client alone, or a query of the manager with its summarizer calls
FailureLimit ==
    IF query = NoQuery THEN MaxFailures
    ELSE MaxQueryFailures - Cardinality(FailedSummaries)

\* the request of the loop head raises NotionAPIError
RequestFail ==
    /\ pc = "running"
    /\ Top.at = "request"
    /\ Len(log) < MaxRequests
    /\ nfail < FailureLimit
    /\ nfail' = nfail + 1
    /\ log' = Append(log, [run |-> Top.run, block_id |-> Top.block_id,
                           level |-> Len(stack) - 1,
                           start_cursor |-> StartCursorParam(Top.cursor),
                           ok |-> FALSE])
    /\ IF CatchesRequestError(op)
       THEN Return(Top.children)       \* except: print; break; return children
       ELSE /\ pc' = "raised"          \* the error leaves the call
            /\ stack' = <<>>
            /\ UNCHANGED result
    /\ UNCHANGED <<op, store, max_depth, nrun>>
    /\ UNCHANGED weeklyVars

\* one iteration of `for block in data["results"]`
ForBlock ==
    /\ pc = "running"
    /\ Top.at = "for"
    /\ Top.i <= Len(Top.data.results)
    /\ LET f     == Top
           block == f.data.results[f.i]
       IN IF ShouldDescend(block, f.current_depth, max_depth)
          THEN IF DepthExhausted(ChildDepth(f.current_depth), max_depth)
               THEN \* the recursive call returns [] at once
                    /\ stack' = [stack EXCEPT ![Len(stack)] =
                          [f EXCEPT !.children = Append(@,
                                      [block EXCEPT !.has_key = TRUE]),
                                    !.i = @ + 1]]
                    /\ UNCHANGED nrun
               ELSE /\ stack' = Append(stack,
                          NewFrame(block.id, ChildDepth(f.current_depth),
                                   nrun + 1))
                    /\ nrun' = nrun + 1
          ELSE /\ stack' = [stack EXCEPT ![Len(stack)] =
                          [f EXCEPT !.children = Append(@, block),
                                    !.i = @ + 1]]
               /\ UNCHANGED nrun
    /\ UNCHANGED <<pc, op, store, max_depth, log, result, nfail>>
    /\ UNCHANGED weeklyVars

\* after the for loop: `if not has_more: break` else advance the cursor
EndFor ==
    /\ pc = "running"
    /\ Top.at = "for"
    /\ Top.i > Len(Top.data.results)
    /\ IF ~Top.data.has_more
       THEN Return(Top.children)
       ELSE /\ stack' = [stack EXCEPT ![Len(stack)] =
                          [Top EXCEPT !.cursor = NextCursor(Top.data),
                                      !.at = "request"]]
            /\ UNCHANGED <<pc, result>>
    /\ UNCHANGED <<op, store, max_depth, log, nfail, nrun>>
    /\ UNCHANGED weeklyVars

\* a call of the manager goes on or ends after the requests sent, of which
\* failed have failed, in runs pagination runs: no client call is in progress
ClientRests(sent, failed, runs) ==
    /\ pc' = "idle"
    /\ stack' = <<>>
    /\ result' = <<>>
    /\ log' = sent
    /\ nfail' = failed
    /\ nrun' = runs
    /\ UNCHANGED <<op, store, max_depth>>

\* a call that does not use the client: no client method is called and no
\* request is sent
ClientUnused ==
    IF pc = "idle" /\ op = "none" /\ log = <<>>
    THEN UNCHANGED clientVars
    ELSE /\ pc' = "idle"
         /\ op' = "none"
         /\ max_depth' = 0
         /\ stack' = <<>>
         /\ result' = <<>>
         /\ log' = <<>>
         /\ nfail' = 0
         /\ nrun' = 0
         /\ UNCHANGED store

-----------------------------------------------------------------------------
(* Python str and datetime.date *)

\* a str is the tuple of its characters; a character outside ASCII is written
\* by its code point, as in "U+0661"
Digits == <<"0", "1", "2", "3", "4", "5", "6", "7", "8", "9">>

\* the decimal digits outside ASCII (Unicode category Nd), one row per
\* script, from the digit zero to the digit nine
ScriptDigits ==
    <<
       <<"U+0660", "U+0661", "U+0662", "U+0663", "U+0664",
         "U+0665", "U+0666", "U+0667", "U+0668", "U+0669">>,
       <<"U+06F0", "U+06F1", "U+06F2", "U+06F3", "U+06F4",
         "U+06F5", "U+06F6", "U+06F7", "U+06F8", "U+06F9">>,
       <<"U+07C0", "U+07C1", "U+07C2", "U+07C3", "U+07C4",
         "U+07C5", "U+07C6", "U+07C7", "U+07C8", "U+07C9">>,
       <<"U+0966", "U+0967", "U+0968", "U+0969", "U+096A",
         "U+096B", "U+096C", "U+096D", "U+096E", "U+096F">>,
       <<"U+09E6", "U+09E7", "U+09E8", "U+09E9", "U+09EA",
         "U+09EB", "U+09EC", "U+09ED", "U+09EE", "U+09EF">>,
       <<"U+0A66", "U+0A67", "U+0A68", "U+0A69", "U+0A6A",
         "U+0A6B", "U+0A6C", "U+0A6D", "U+0A6E", "U+0A6F">>,
       <<"U+0AE6", "U+0AE7", "U+0AE8", "U+0AE9", "U+0AEA",
         "U+0AEB", "U+0AEC", "U+0AED", "U+0AEE", "U+0AEF">>,
       <<"U+0B66", "U+0B67", "U+0B68", "U+0B69", "U+0B6A",
         "U+0B6B", "U+0B6C", "U+0B6D", "U+0B6E", "U+0B6F">>,
       <<"U+0BE6", "U+0BE7", "U+0BE8", "U+0BE9", "U+0BEA",
         "U+0BEB", "U+0BEC", "U+0BED", "U+0BEE", "U+0BEF">>,
       <<"U+0C66", "U+0C67", "U+0C68", "U+0C69", "U+0C6A",
         "U+0C6B", "U+0C6C", "U+0C6D", "U+0C6E", "U+0C6F">>,
       <<"U+0CE6", "U+0CE7", "U+0CE8", "U+0CE9", "U+0CEA",
         "U+0CEB", "U+0CEC", "U+0CED", "U+0CEE", "U+0CEF">>,
       <<"U+0D66", "U+0D67", "U+0D68", "U+0D69", "U+0D6A",
         "U+0D6B", "U+0D6C", "U+0D6D", "U+0D6E", "U+0D6F">>,
       <<"U+0DE6", "U+0DE7", "U+0DE8", "U+0DE9", "U+0DEA",
         "U+0DEB", "U+0DEC", "U+0DED", "U+0DEE", "U+0DEF">>,
       <<"U+0E50", "U+0E51", "U+0E52", "U+0E53", "U+0E54",
         "U+0E55", "U+0E56", "U+0E57", "U+0E58", "U+0E59">>,
       <<"U+0ED0", "U+0ED1", "U+0ED2", "U+0ED3", "U+0ED4",
         "U+0ED5", "U+0ED6", "U+0ED7", "U+0ED8", "U+0ED9">>,
       <<"U+0F20", "U+0F21", "U+0F22", "U+0F23", "U+0F24",
         "U+0F25", "U+0F26", "U+0F27", "U+0F28", "U+0F29">>,
       <<"U+1040", "U+1041", "U+1042", "U+1043", "U+1044",
         "U+1045", "U+1046", "U+1047", "U+1048", "U+1049">>,
       <<"U+1090", "U+1091", "U+1092", "U+1093", "U+1094",
         "U+1095", "U+1096", "U+1097", "U+1098", "U+1099">>,
       <<"U+17E0", "U+17E1", "U+17E2", "U+17E3", "U+17E4",
         "U+17E5", "U+17E6", "U+17E7", "U+17E8", "U+17E9">>,
       <<"U+1810", "U+1811", "U+1812", "U+1813", "U+1814",
         "U+1815", "U+1816", "U+1817", "U+1818", "U+1819">>,
       <<"U+1946", "U+1947", "U+1948", "U+1949", "U+194A",
         "U+194B", "U+194C", "U+194D", "U+194E", "U+194F">>,
       <<"U+19D0", "U+19D1", "U+19D2", "U+19D3", "U+19D4",
         "U+19D5", "U+19D6", "U+19D7", "U+19D8", "U+19D9">>,
       <<"U+1A80", "U+1A81", "U+1A82", "U+1A83", "U+1A84",
         "U+1A85", "U+1A86", "U+1A87", "U+1A88", "U+1A89">>,
       <<"U+1A90", "U+1A91", "U+1A92", "U+1A93", "U+1A94",
         "U+1A95", "U+1A96", "U+1A97", "U+1A98", "U+1A99">>,
       <<"U+1B50", "U+1B51", "U+1B52", "U+1B53", "U+1B54",
         "U+1B55", "U+1B56", "U+1B57", "U+1B58", "U+1B59">>,
       <<"U+1BB0", "U+1BB1", "U+1BB2", "U+1BB3", "U+1BB4",
         "U+1BB5", "U+1BB6", "U+1BB7", "U+1BB8", "U+1BB9">>,
       <<"U+1C40", "U+1C41", "U+1C42", "U+1C43", "U+1C44",
         "U+1C45", "U+1C46", "U+1C47", "U+1C48", "U+1C49">>,
       <<"U+1C50", "U+1C51", "U+1C52", "U+1C53", "U+1C54",
         "U+1C55", "U+1C56", "U+1C57", "U+1C58", "U+1C59">>,
       <<"U+A620", "U+A621", "U+A622", "U+A623", "U+A624",
         "U+A625", "U+A626", "U+A627", "U+A628", "U+A629">>,
       <<"U+A8D0", "U+A8D1", "U+A8D2", "U+A8D3", "U+A8D4",
         "U+A8D5", "U+A8D6", "U+A8D7", "U+A8D8", "U+A8D9">>,
       <<"U+A900", "U+A901", "U+A902", "U+A903", "U+A904",
         "U+A905", "U+A906", "U+A907", "U+A908", "U+A909">>,
       <<"U+A9D0", "U+A9D1", "U+A9D2", "U+A9D3", "U+A9D4",
         "U+A9D5", "U+A9D6", "U+A9D7", "U+A9D8", "U+A9D9">>,
       <<"U+A9F0", "U+A9F1", "U+A9F2", "U+A9F3", "U+A9F4",
         "U+A9F5", "U+A9F6", "U+A9F7", "U+A9F8", "U+A9F9">>,
       <<"U+AA50", "U+AA51", "U+AA52", "U+AA53", "U+AA54",
         "U+AA55", "U+AA56", "U+AA57", "U+AA58", "U+AA59">>,
       <<"U+ABF0", "U+ABF1", "U+ABF2", "U+ABF3", "U+ABF4",
         "U+ABF5", "U+ABF6", "U+ABF7", "U+ABF8", "U+ABF9">>,
       <<"U+FF10", "U+FF11", "U+FF12", "U+FF13", "U+FF14",
         "U+FF15", "U+FF16", "U+FF17", "U+FF18", "U+FF19">>,
       <<"U+104A0", "U+104A1", "U+104A2", "U+104A3", "U+104A4",
         "U+104A5", "U+104A6", "U+104A7", "U+104A8", "U+104A9">>,
       <<"U+10D30", "U+10D31", "U+10D32", "U+10D33", "U+10D34",
         "U+10D35", "U+10D36", "U+10D37", "U+10D38", "U+10D39">>,
       <<"U+11066", "U+11067", "U+11068", "U+11069", "U+1106A",
         "U+1106B", "U+1106C", "U+1106D", "U+1106E", "U+1106F">>,
       <<"U+110F0", "U+110F1", "U+110F2", "U+110F3", "U+110F4",
         "U+110F5", "U+110F6", "U+110F7", "U+110F8", "U+110F9">>,
       <<"U+11136", "U+11137", "U+11138", "U+11139", "U+1113A",
         "U+1113B", "U+1113C", "U+1113D", "U+1113E", "U+1113F">>,
       <<"U+111D0", "U+111D1", "U+111D2", "U+111D3", "U+111D4",
         "U+111D5", "U+111D6", "U+111D7", "U+111D8", "U+111D9">>,
       <<"U+112F0", "U+112F1", "U+112F2", "U+112F3", "U+112F4",
         "U+112F5", "U+112F6", "U+112F7", "U+112F8", "U+112F9">>,
       <<"U+11450", "U+11451", "U+11452", "U+11453", "U+11454",
         "U+11455", "U+11456", "U+11457", "U+11458", "U+11459">>,
       <<"U+114D0", "U+114D1", "U+114D2", "U+114D3", "U+114D4",
         "U+114D5", "U+114D6", "U+114D7", "U+114D8", "U+114D9">>,
       <<"U+11650", "U+11651", "U+11652", "U+11653", "U+11654",
         "U+11655", "U+11656", "U+11657", "U+11658", "U+11659">>,
       <<"U+116C0", "U+116C1", "U+116C2", "U+116C3", "U+116C4",
         "U+116C5", "U+116C6", "U+116C7", "U+116C8", "U+116C9">>,
       <<"U+11730", "U+11731", "U+11732", "U+11733", "U+11734",
         "U+11735", "U+11736", "U+11737", "U+11738", "U+11739">>,
       <<"U+118E0", "U+118E1", "U+118E2", "U+118E3", "U+118E4",
         "U+118E5", "U+118E6", "U+118E7", "U+118E8", "U+118E9">>,
       <<"U+11950", "U+11951", "U+11952", "U+11953", "U+11954",
         "U+11955", "U+11956", "U+11957", "U+11958", "U+11959">>,
       <<"U+11C50", "U+11C51", "U+11C52", "U+11C53", "U+11C54",
         "U+11C55", "U+11C56", "U+11C57", "U+11C58", "U+11C59">>,
       <<"U+11D50", "U+11D51", "U+11D52", "U+11D53", "U+11D54",
         "U+11D55", "U+11D56", "U+11D57", "U+11D58", "U+11D59">>,
       <<"U+11DA0", "U+11DA1", "U+11DA2", "U+11DA3", "U+11DA4",
         "U+11DA5", "U+11DA6", "U+11DA7", "U+11DA8", "U+11DA9">>,
       <<"U+16A60", "U+16A61", "U+16A62", "U+16A63", "U+16A64",
         "U+16A65", "U+16A66", "U+16A67", "U+16A68", "U+16A69">>,
       <<"U+16AC0", "U+16AC1", "U+16AC2", "U+16AC3", "U+16AC4",
         "U+16AC5", "U+16AC6", "U+16AC7", "U+16AC8", "U+16AC9">>,
       <<"U+16B50", "U+16B51", "U+16B52", "U+16B53", "U+16B54",
         "U+16B55", "U+16B56", "U+16B57", "U+16B58", "U+16B59">>,
       <<"U+1D7CE", "U+1D7CF", "U+1D7D0", "U+1D7D1", "U+1D7D2",
         "U+1D7D3", "U+1D7D4", "U+1D7D5", "U+1D7D6", "U+1D7D7">>,
       <<"U+1D7D8", "U+1D7D9", "U+1D7DA", "U+1D7DB", "U+1D7DC",
         "U+1D7DD", "U+1D7DE", "U+1D7DF", "U+1D7E0", "U+1D7E1">>,
       <<"U+1D7E2", "U+1D7E3", "U+1D7E4", "U+1D7E5", "U+1D7E6",
         "U+1D7E7", "U+1D7E8", "U+1D7E9", "U+1D7EA", "U+1D7EB">>,
       <<"U+1D7EC", "U+1D7ED", "U+1D7EE", "U+1D7EF", "U+1D7F0",
         "U+1D7F1", "U+1D7F2", "U+1D7F3", "U+1D7F4", "U+1D7F5">>,
       <<"U+1D7F6", "U+1D7F7", "U+1D7F8", "U+1D7F9", "U+1D7FA",
         "U+1D7FB", "U+1D7FC", "U+1D7FD", "U+1D7FE", "U+1D7FF">>,
       <<"U+1E140", "U+1E141", "U+1E142", "U+1E143", "U+1E144",
         "U+1E145", "U+1E146", "U+1E147", "U+1E148", "U+1E149">>,
       <<"U+1E2F0", "U+1E2F1", "U+1E2F2", "U+1E2F3", "U+1E2F4",
         "U+1E2F5", "U+1E2F6", "U+1E2F7", "U+1E2F8", "U+1E2F9">>,
       <<"U+1E950", "U+1E951", "U+1E952", "U+1E953", "U+1E954",
         "U+1E955", "U+1E956", "U+1E957", "U+1E958", "U+1E959">>,
       <<"U+1FBF0", "U+1FBF1", "U+1FBF2", "U+1FBF3", "U+1FBF4",
         "U+1FBF5", "U+1FBF6", "U+1FBF7", "U+1FBF8", "U+1FBF9">> >>

AsciiDigitSet == {Digits[i] : i \in DOMAIN Digits}

ScriptDigitSet ==
    {ScriptDigits[r][i] : r \in DOMAIN ScriptDigits, i \in 1..10}

\* the pattern \d of a str pattern: any decimal digit, ASCII or not
IsDigit(c) == c \in AsciiDigitSet \/ c \in ScriptDigitSet

\* the value int() gives the digit
DigitVal(c) ==
    IF c \in AsciiDigitSet
    THEN (CHOOSE i \in DOMAIN Digits : Digits[i] = c) - 1
    ELSE (CHOOSE i \in 1..10 :
              \E r \in DOMAIN ScriptDigits : ScriptDigits[r][i] = c) - 1

AllDigits(str) == \A i \in DOMAIN str : IsDigit(str[i])

\* int(str) of a digit string; leading blanks are skipped
RECURSIVE IntOf(_)
IntOf(str) ==
    IF str = <<>> THEN 0
    ELSE IF str[1] = " " THEN IntOf(Tail(str))
    ELSE 10 * IntOf(SubSeq(str, 1, Len(str) - 1)) + DigitVal(str[Len(str)])

\* str.split(sep)[0]
SplitFirst(str, sep) ==
    LET at == {i \in DOMAIN str : str[i] = sep}
    IN IF at = {} THEN str
       ELSE SubSeq(str, 1, (CHOOSE i \in at : \A j \in at : i <= j) - 1)

\* the value None where a date is expected
NoDate == [year |-> 0, month |-> 0, day |-> 0]

IsLeap(year) == (year % 4 = 0 /\ year % 100 # 0) \/ year % 400 = 0

DaysInMonth(year, month) ==
    IF month = 2 THEN (IF IsLeap(year) THEN 29 ELSE 28)
    ELSE IF month \in {4, 6, 9, 11} THEN 30 ELSE 31

RECURSIVE DaysBeforeMonth(_, _)
DaysBeforeMonth(year, month) ==
    IF month = 1 THEN 0
    ELSE DaysBeforeMonth(year, month - 1) + DaysInMonth(year, month - 1)

DaysBeforeYear(year) ==
    LET y == year - 1 IN y * 365 + y \div 4 - y \div 100 + y \div 400

\* date.toordinal(): 0001-01-01 is day 1
ToOrdinal(d) == DaysBeforeYear(d.year) + DaysBeforeMonth(d.year, d.month) + d.day

\* date.fromordinal()
FromOrdinal(n) ==
    LET guess == (n * 400) \div 146097 + 1
        year  == CHOOSE y \in (guess - 1)..(guess + 1) :
                     DaysBeforeYear(y) < n /\ n <= DaysBeforeYear(y + 1)
        rest  == n - DaysBeforeYear(year)
        month == CHOOSE m \in 1..12 :
                     /\ DaysBeforeMonth(year, m) < rest
                     /\ rest <= DaysBeforeMonth(year, m) + DaysInMonth(year, m)
    IN [year |-> year, month |-> month, day |-> rest - DaysBeforeMonth(year, month)]

\* date.weekday(): Monday is 0
Weekday(d) == (ToOrdinal(d) + 6) % 7

\* date + timedelta(days)
AddDays(d, days) == FromOrdinal(ToOrdinal(d) + days)

\* the digits 1..9 of the pattern [1-9]
NonZeroDigits == AsciiDigitSet \ {"0"}

\* a %m (max = 12) or %d (max = 31) field of strptime, the patterns
\* 1[0-2]|0[1-9]|[1-9] and 3[0-1]|[1-2]\d|0[1-9]|[1-9]| [1-9]
FieldOk(str, max) ==
    \/ /\ Len(str) = 1
       /\ str[1] \in NonZeroDigits
    \/ /\ Len(str) = 2
       /\ \/ str[1] = "0" /\ str[2] \in NonZeroDigits
          \/ max = 12 /\ str[1] = "1" /\ str[2] \in {"0", "1", "2"}
          \/ max = 31 /\ str[1] = "3" /\ str[2] \in {"0", "1"}
          \/ max = 31 /\ str[1] \in {"1", "2"} /\ IsDigit(str[2])
          \/ max = 31 /\ str[1] = " " /\ str[2] \in NonZeroDigits

\* datetime.strptime(str, "%Y-%m-%d").date(); NoDate stands for ValueError
Strptime(str) ==
    IF Len(str) < 5 \/ ~AllDigits(SubSeq(str, 1, 4)) \/ str[5] # "-"
    THEN NoDate
    ELSE LET rest  == SubSeq(str, 6, Len(str))
             mstr  == SplitFirst(rest, "-")
             dstr  == SubSeq(rest, Len(mstr) + 2, Len(rest))
             year  == IntOf(SubSeq(str, 1, 4))
         IN IF /\ Len(mstr) < Len(rest)
               /\ FieldOk(mstr, 12)
               /\ FieldOk(dstr, 31)
               /\ year >= 1
               /\ IntOf(dstr) <= DaysInMonth(year, IntOf(mstr))
            THEN [year |-> year, month |-> IntOf(mstr), day |-> IntOf(dstr)]
            ELSE NoDate

-----------------------------------------------------------------------------
(* DateUtils *)

\* parse_notion_date: None for an empty or unparsable string
parse_notion_date(date_str) ==
    IF date_str = <<>> THEN NoDate
    ELSE Strptime(SplitFirst(date_str, "T"))

\* the search loop of get_week_number_monthly, lines 32-37
RECURSIVE FirstMondayFrom(_, _, _)
FirstMondayFrom(first_monday, first_day, target_date) ==
    IF Weekday(first_monday) = 0 THEN first_monday
    ELSE LET next == [first_monday EXCEPT !.day = @ + 1]
         IN IF next.month # target_date.month THEN first_day
            ELSE FirstMondayFrom(next, first_day, target_date)

\* faulty variant: the test `if target_date < first_monday` is left out
get_week_number_monthly_NoEarlyCase(target_date) ==
    LET first_day    == [target_date EXCEPT !.day = 1]
        first_monday == FirstMondayFrom(first_day, first_day, target_date)
    IN ((ToOrdinal(target_date) - ToOrdinal(first_monday)) \div 7) + 1

\* faulty variant: the days before the first Monday are counted as week 1 and
\* the first Monday opens week 2
get_week_number_monthly_PartialWeekFirst(target_date) ==
    LET first_day    == [target_date EXCEPT !.day = 1]
        first_monday == FirstMondayFrom(first_day, first_day, target_date)
    IN IF ToOrdinal(target_date) < ToOrdinal(first_monday) THEN 1
       ELSE ((ToOrdinal(target_date) - ToOrdinal(first_monday)) \div 7) + 2

get_week_number_monthly(target_date) ==
    LET first_day    == [target_date EXCEPT !.day = 1]
        first_monday == FirstMondayFrom(first_day, first_day, target_date)
    IN IF ToOrdinal(target_date) < ToOrdinal(first_monday) THEN 1
       ELSE ((ToOrdinal(target_date) - ToOrdinal(first_monday)) \div 7) + 1

\* faulty variant: the comparison of line 50 written with <= instead of <
get_week_number_project_based_Inclusive(target_date, project_start_date) ==
    IF ToOrdinal(target_date) <= ToOrdinal(project_start_date) THEN 0
    ELSE ((ToOrdinal(target_date) - ToOrdinal(project_start_date)) \div 7) + 1

\* project_start_date is the value of DateUtils.PROJECT_START_DATE it reads
get_week_number_project_based(target_date, project_start_date) ==
    IF ToOrdinal(target_date) < ToOrdinal(project_start_date) THEN 0
    ELSE ((ToOrdinal(target_date) - ToOrdinal(project_start_date)) \div 7) + 1

\* the Monday that starts ISO week 1 of a year (datetime._isoweek1monday)
IsoWeek1Monday(year) ==
    LET firstday     == ToOrdinal([year |-> year, month |-> 1, day |-> 1])
        firstweekday == (firstday + 6) % 7
        week1monday  == firstday - firstweekday
    IN IF firstweekday > 3 THEN week1monday + 7 ELSE week1monday

\* get_week_number_iso: date.isocalendar()[:2]
get_week_number_iso(target_date) ==
    LET today == ToOrdinal(target_date)
        year  == target_date.year
        week  == (today - IsoWeek1Monday(year)) \div 7
    IN IF today < IsoWeek1Monday(year)
       THEN <<year - 1, ((today - IsoWeek1Monday(year - 1)) \div 7) + 1>>
       ELSE IF week >= 52 /\ today >= IsoWeek1Monday(year + 1)
            THEN <<year + 1, 1>>
            ELSE <<year, week + 1>>

\* the weekday names of format_korean_date_with_weekday, transliterated
weekdays == <<"wol", "hwa", "su", "mok", "geum", "to", "il">>

\* f"{month}wol {day}il"
format_korean_date(target_date) ==
    ToString(target_date.month) \o "wol " \o ToString(target_date.day) \o "il"

\* f"{month}wol {day}il ({weekday})"
format_korean_date_with_weekday(target_date) ==
    format_korean_date(target_date) \o " ("
        \o weekdays[Weekday(target_date) + 1] \o ")"

\* faulty variant: the iso week number keeps the iso year (year * 100 + week)
get_date_info_YearWeek(date_str, method, project_start_date) ==
    LET parsed_date == parse_notion_date(date_str)
    IN IF parsed_date = NoDate THEN <<"naljja eobseum", 0>>
       ELSE <<format_korean_date_with_weekday(parsed_date),
              CASE method = "monthly" -> get_week_number_monthly(parsed_date)
                [] method = "iso"     ->
                       get_week_number_iso(parsed_date)[1] * 100
                           + get_week_number_iso(parsed_date)[2]
                [] OTHER -> get_week_number_project_based(parsed_date,
                                                          project_start_date)>>

\* get_date_info: <<korean_date, week_num>>
get_date_info(date_str, method, project_start_date) ==
    LET parsed_date == parse_notion_date(date_str)
    IN IF parsed_date = NoDate THEN <<"naljja eobseum", 0>>
       ELSE <<format_korean_date_with_weekday(parsed_date),
              CASE method = "monthly" -> get_week_number_monthly(parsed_date)
                [] method = "iso"     -> get_week_number_iso(parsed_date)[2]
                [] OTHER -> get_week_number_project_based(parsed_date,
                                                          project_start_date)>>

\* the value None where a week summary is expected
NoSummary ==
    [present |-> FALSE, week_number |-> 0, start_date |-> NoDate,
     end_date |-> NoDate, korean_range |-> ""]

\* faulty variant: the week start is taken week_number weeks after the start
get_week_summary_OffByOne(week_number, project_start_date) ==
    IF week_number <= 0
    THEN [present |-> TRUE, week_number |-> week_number,
          start_date |-> NoDate, end_date |-> NoDate,
          korean_range |-> "yuhyohaji aneun jucha"]
    ELSE LET week_start == AddDays(project_start_date, 7 * week_number)
             week_end   == AddDays(week_start, 6)
         IN [present |-> TRUE, week_number |-> week_number,
             start_date |-> week_start, end_date |-> week_end,
             korean_range |-> format_korean_date(week_start) \o " ~ "
                                 \o format_korean_date(week_end)]

\* faulty variant: the week end is taken a whole week after the start
get_week_summary_EightDays(week_number, project_start_date) ==
    IF week_number <= 0
    THEN [present |-> TRUE, week_number |-> week_number,
          start_date |-> NoDate, end_date |-> NoDate,
          korean_range |-> "yuhyohaji aneun jucha"]
    ELSE LET week_start == AddDays(project_start_date, 7 * (week_number - 1))
             week_end   == AddDays(week_start, 7)
         IN [present |-> TRUE, week_number |-> week_number,
             start_date |-> week_start, end_date |-> week_end,
             korean_range |-> format_korean_date(week_start) \o " ~ "
                                 \o format_korean_date(week_end)]

get_week_summary(week_number, project_start_date) ==
    IF week_number <= 0
    THEN [present |-> TRUE, week_number |-> week_number,
          start_date |-> NoDate, end_date |-> NoDate,
          korean_range |-> "yuhyohaji aneun jucha"]
    ELSE LET week_start == AddDays(project_start_date, 7 * (week_number - 1))
             week_end   == AddDays(week_start, 6)
         IN [present |-> TRUE, week_number |-> week_number,
             start_date |-> week_start, end_date |-> week_end,
             korean_range |-> format_korean_date(week_start) \o " ~ "
                                 \o format_korean_date(week_end)]

-----------------------------------------------------------------------------
(* Documents: the pages of the database *)

\* a property of a page: its type and, for a date property, prop["date"]
TitleProp == [type |-> "title", has_date |-> FALSE, start |-> <<>>]
DateProp(start) == [type |-> "date", has_date |-> TRUE, start |-> start]
EmptyDateProp == [type |-> "date", has_date |-> FALSE, start |-> <<>>]

\* page id -> page["properties"], in the mapping's order
Documents ==
    << \* 1: "2025-07-01"
       <<TitleProp, DateProp(<<"2","0","2","5","-","0","7","-","0","1">>)>>,
       \* 2: "2025-07-08T09:00"
       <<DateProp(<<"2","0","2","5","-","0","7","-","0","8","T",
                    "0","9",":","0","0">>), TitleProp>>,
       \* 3: "2025-02-30", a day that does not exist
       <<TitleProp, DateProp(<<"2","0","2","5","-","0","2","-","3","0">>)>>,
       \* 4: no date property
       <<TitleProp>>,
       \* 5: an empty date property, then "2024-01-08"
       <<TitleProp, EmptyDateProp,
         DateProp(<<"2","0","2","4","-","0","1","-","0","8">>)>>,
       \* 6: "2025-01-06"
       <<TitleProp, DateProp(<<"2","0","2","5","-","0","1","-","0","6">>)>>,
       \* 7: "2024-12-30", a day of ISO week 2025-W01
       <<TitleProp, DateProp(<<"2","0","2","4","-","1","2","-","3","0">>)>> >>

Page(id) == [id |-> id, properties |-> Documents[id]]

\* the pages of the database that query_database_all returns
DatabaseIds == DOMAIN Documents \ {7}

\* the lists of distinct pages of length n
RECURSIVE PageListsOfLen(_)
PageListsOfLen(n) ==
    IF n = 0 THEN {<<>>}
    ELSE {Append(l, Page(id)) :
            l \in PageListsOfLen(n - 1),
            id \in DatabaseIds} \ 
         {Append(l, l[j]) : l \in PageListsOfLen(n - 1), j \in 1..(n - 1)}

PageLists == UNION {PageListsOfLen(n) : n \in 0..MaxPages}

\* a second database: the pages dated in the ISO weeks W02, W02 and W01
JanuaryIds == {5, 6, 7}

\* the lists of distinct pages of the second database of length n
RECURSIVE JanuaryListsOfLen(_)
JanuaryListsOfLen(n) ==
    IF n = 0 THEN {<<>>}
    ELSE {Append(l, Page(id)) :
            l \in JanuaryListsOfLen(n - 1),
            id \in JanuaryIds} \ 
         {Append(l, l[j]) : l \in JanuaryListsOfLen(n - 1), j \in 1..(n - 1)}

JanuaryLists == UNION {JanuaryListsOfLen(n) : n \in 0..(MaxPages + 1)}

\* the start dates main.py can set with set_project_start_date
StartDates ==
    { [year |-> 2025, month |-> 7, day |-> 1],
      [year |-> 2025, month |-> 6, day |-> 24] }

\* the method names a caller may pass; "quarterly" is not a valid one
MethodNames == {"project", "monthly", "iso", "quarterly"}

-----------------------------------------------------------------------------
(* NotionPageFormatter and WeeklyManager *)

\* the value None where a date string is expected
NoString == [some |-> FALSE, str |-> <<>>]

\* NotionPageFormatter.get_page_date
RECURSIVE get_page_date_from(_, _)
get_page_date_from(properties, i) ==
    IF i > Len(properties) THEN NoString
    ELSE IF properties[i].type = "date" /\ properties[i].has_date
         THEN [some |-> TRUE, str |-> properties[i].start]
         ELSE get_page_date_from(properties, i + 1)

get_page_date(properties) == get_page_date_from(properties, 1)

\* faulty variant: the test `if page_date:` is dropped
PageDateTruthy_Always(page_date) == TRUE

\* `if page_date:` -- None and "" are falsy
PageDateTruthy(page_date) == page_date.some /\ page_date.str # <<>>

\* faulty variant: the mapping is not cleared before the loop
Clear_Nothing(mapping) == mapping

\* self.weekly_pages.clear()
Clear(mapping) == <<>>

\* faulty variant: the page is put at the front of its bucket
AppendToBucket_Prepend(mapping, week_num, page) ==
    [w \in DOMAIN mapping \cup {week_num} |->
        IF w = week_num
        THEN <<page>> \o (IF w \in DOMAIN mapping THEN mapping[w] ELSE <<>>)
        ELSE mapping[w]]

\* self.weekly_pages[week_num].append(page) on a defaultdict(list)
AppendToBucket(mapping, week_num, page) ==
    [w \in DOMAIN mapping \cup {week_num} |->
        IF w = week_num
        THEN Append(IF w \in DOMAIN mapping THEN mapping[w] ELSE <<>>, page)
        ELSE mapping[w]]

\* page["_date_info"] of analyze_pages_by_week, lines 54-69
DateInfo(page_date, method, project_start_date) ==
    LET info == get_date_info(page_date, method, project_start_date)
    IN [original_date |-> page_date,
        korean_date   |-> info[1],
        week_number   |-> info[2],
        week_summary  |-> IF method = "project"
                          THEN get_week_summary(info[2], project_start_date)
                          ELSE NoSummary]

\* what the loop body, lines 52-69, makes of one page: whether it has a
\* date and, if so, the page with its "_date_info" (kept as a table over the
\* model's pages, methods and start dates)
AnalyzedPage ==
    [id \in DOMAIN Documents |->
      [method \in MethodNames |->
        [project_start_date \in StartDates |->
          LET page      == Page(id)
              page_date == get_page_date(page.properties)
          IN IF PageDateTruthy(page_date)
             THEN [dated |-> TRUE,
                   page  |-> [id |-> page.id, properties |-> page.properties,
                              date_info |-> DateInfo(page_date.str, method,
                                                     project_start_date)]]
             ELSE [dated |-> FALSE]]]]

\* the loop of analyze_pages_by_week from pages[i] on
RECURSIVE AnalyzeFrom(_, _, _, _, _)
AnalyzeFrom(pages, i, mapping, method, project_start_date) ==
    IF i > Len(pages) THEN mapping
    ELSE LET a == AnalyzedPage[pages[i].id][method][project_start_date]
         IN IF a.dated
            THEN AnalyzeFrom(pages, i + 1,
                             AppendToBucket(mapping,
                                            a.page.date_info.week_number,
                                            a.page),
                             method, project_start_date)
            ELSE AnalyzeFrom(pages, i + 1, mapping, method, project_start_date)

\* WeeklyManager.analyze_pages_by_week(pages)
analyze_pages_by_week(pages) ==
    /\ weekly_pages' = AnalyzeFrom(pages, 1, Clear(weekly_pages),
                                   week_calculation_method, PROJECT_START_DATE)
    /\ dropped' = (DOMAIN weekly_pages \ DOMAIN weekly_pages' # {})
    /\ called' = "analyze_pages_by_week"
    /\ last_pages' = pages
    /\ last_method' = week_calculation_method
    /\ last_start_date' = PROJECT_START_DATE
    /\ raised' = "none"
    /\ argument' = PyNone
    /\ returned' = Py("Dict[int, List[Dict]]", "dict(self.weekly_pages)")
    /\ with_dates' = {}
    /\ query = NoQuery
    /\ UNCHANGED query
    /\ UNCHANGED <<week_calculation_method, PROJECT_START_DATE, summarizer,
                   supplied>>
    /\ ClientUnused

\* faulty variant: a valid change of method reclassifies the last documents
set_week_calculation_method_Reclassify(method) ==
    /\ IF method \notin {"project", "monthly", "iso"}
       THEN /\ raised' = "ValueError"
            /\ UNCHANGED <<week_calculation_method, weekly_pages>>
       ELSE /\ raised' = "none"
            /\ week_calculation_method' = method
            /\ weekly_pages' = AnalyzeFrom(last_pages, 1, <<>>, method,
                                           PROJECT_START_DATE)
    /\ called' = "set_week_calculation_method"
    /\ argument' = Py("str", method)
    /\ returned' = PyNone
    /\ with_dates' = {}
    /\ query = NoQuery
    /\ UNCHANGED query
    /\ UNCHANGED <<PROJECT_START_DATE, last_pages, last_method,
                   last_start_date, dropped, summarizer, supplied>>
    /\ ClientUnused

\* faulty variant: the name is stored before it is validated
set_week_calculation_method_StoresFirst(method) ==
    /\ week_calculation_method' = method
    /\ raised' = IF method \notin {"project", "monthly", "iso"}
                 THEN "ValueError" ELSE "none"
    /\ called' = "set_week_calculation_method"
    /\ argument' = Py("str", method)
    /\ returned' = PyNone
    /\ with_dates' = {}
    /\ query = NoQuery
    /\ UNCHANGED query
    /\ UNCHANGED <<weekly_pages, PROJECT_START_DATE, last_pages, last_method,
                   last_start_date, dropped, summarizer, supplied>>
    /\ ClientUnused

\* WeeklyManager.set_week_calculation_method(method)
set_week_calculation_method(method) ==
    /\ IF method \notin {"project", "monthly", "iso"}
       THEN /\ raised' = "ValueError"
            /\ UNCHANGED week_calculation_method
       ELSE /\ raised' = "none"
            /\ week_calculation_method' = method
    /\ called' = "set_week_calculation_method"
    /\ argument' = Py("str", method)
    /\ returned' = PyNone
    /\ with_dates' = {}
    /\ query = NoQuery
    /\ UNCHANGED query
    /\ UNCHANGED <<weekly_pages, PROJECT_START_DATE, last_pages, last_method,
                   last_start_date, dropped, summarizer, supplied>>
    /\ ClientUnused

\* DateUtils.set_project_start_date(start_date)
set_project_start_date(start_date) ==
    /\ PROJECT_START_DATE' = start_date
    /\ supplied' = start_date
    /\ raised' = "none"
    /\ called' = "set_project_start_date"
    /\ argument' = PyNone
    /\ returned' = PyNone
    /\ with_dates' = {}
    /\ query = NoQuery
    /\ UNCHANGED query
    /\ UNCHANGED <<weekly_pages, week_calculation_method, last_pages,
                   last_method, last_start_date, dropped, summarizer>>
    /\ ClientUnused

\* DateUtils.set_project_start_date(start_date) called by another party of
\* the process (another WeeklyManager's owner): the same class attribute is
\* written, this manager's owner has supplied nothing new
set_project_start_date_by_other(start_date) ==
    /\ PROJECT_START_DATE' = start_date
    /\ raised' = "none"
    /\ called' = "set_project_start_date (other)"
    /\ argument' = PyNone
    /\ returned' = PyNone
    /\ with_dates' = {}
    /\ query = NoQuery
    /\ UNCHANGED query
    /\ UNCHANGED <<weekly_pages, week_calculation_method, last_pages,
                   last_method, last_start_date, dropped, summarizer,
                   supplied>>
    /\ ClientUnused

-----------------------------------------------------------------------------
(* WeeklyManager: the queries of one week *)

\* get_block_tree's default max_depth, which the manager's calls leave as is
DefaultMaxDepth == 10

\* what the blocks 8 and 9 of the workspace hold (the ids 1..7 are pages):
\* a code block in the language sql above a paragraph of one blank; or a
\* block without a type above an unchecked to-do item without text
QueryBlocks ==
    { [id \in 1..9 |->
          IF id = 8 THEN Block("code", << <<"a">> >>, FALSE, <<"s", "q", "l">>)
          ELSE IF id = 9 THEN Paragraph(<< <<" ">> >>)
          ELSE Paragraph(<<>>)],
      [id \in 1..9 |->
          IF id = 8 THEN Block(None, << <<"a">> >>, FALSE, <<>>)
          ELSE IF id = 9 THEN Block("to_do", <<>>, FALSE, <<>>)
          ELSE Paragraph(<<>>)] }

\* the workspaces the queries read: page 1 holds block 8, which holds block
\* 9; page 5 holds block 9; page 3 is empty; the store serves one item a page
QueryStores ==
    [kids    : {<< <<8>>, <<>>, <<>>, <<>>, <<9>>, <<>>, <<>>, <<9>>, <<>> >>},
     flags   : {"truthful"},
     cursors : {"ok"},
     k       : {1},
     blocks  : QueryBlocks]

-----------------------------------------------------------------------------
(* NotionBlockRenderer *)

HEADING_PREFIXES ==
    [heading_1 |-> <<"#", " ">>,
     heading_2 |-> <<"#", "#", " ">>,
     heading_3 |-> <<"#", "#", "#", " ">>]

\* the characters str.strip() removes
Whitespace ==
    {" ", "\t", "\n", "\r", "\f", "U+000B", "U+001C", "U+001D", "U+001E",
     "U+001F", "U+0085", "U+00A0", "U+1680", "U+2000", "U+2001", "U+2002",
     "U+2003", "U+2004", "U+2005", "U+2006", "U+2007", "U+2008", "U+2009",
     "U+200A", "U+2028", "U+2029", "U+202F", "U+205F", "U+3000"}

\* str.strip() is the empty string
StripsToEmpty(str) == \A j \in DOMAIN str : str[j] \in Whitespace

\* sep.join(strs)
RECURSIVE Join(_, _)
Join(sep, strs) ==
    IF strs = <<>> THEN <<>>
    ELSE IF Len(strs) = 1 THEN strs[1]
    ELSE strs[1] \o sep \o Join(sep, Tail(strs))

\* " " * indent
RECURSIVE Spaces(_)
Spaces(indent) == IF indent <= 0 THEN <<>> ELSE <<" ">> \o Spaces(indent - 1)

extract_rich_text(rich_text) == Join(<<>>, rich_text)

\* the three grave accents (U+0060) that open and close a code block
Fence == <<"U+0060", "U+0060", "U+0060">>

block_to_text(block) ==
    LET block_type == block.type
        data       == block.data
        text       == extract_rich_text(data.rich_text)
    IN IF ~Truthy(block_type) THEN <<>>
       ELSE IF block_type \in DOMAIN HEADING_PREFIXES
       THEN HEADING_PREFIXES[block_type] \o text
       ELSE IF block_type = "to_do"
       THEN <<"[", (IF data.checked THEN "x" ELSE " "), "]", " ">> \o text
       ELSE IF block_type = "bulleted_list_item" THEN <<"-", " ">> \o text
       ELSE IF block_type = "numbered_list_item"
       THEN <<"1", ".", " ">> \o text
       ELSE IF block_type = "code"
       THEN Fence \o data.language \o <<"\n">>
                \o text \o <<"\n">> \o Fence
       ELSE IF block_type = "quote" THEN <<">", " ">> \o text
       ELSE IF block_type = "divider" THEN <<"-", "-", "-">>
       ELSE text

\* render_blocks: the list `result` after the loop over blocks
RECURSIVE render_blocks_result(_, _)
render_blocks_result(blocks, indent) ==
    IF blocks = <<>> THEN <<>>
    ELSE LET block    == Head(blocks)
             line     == block_to_text(block)
             own      == IF ~StripsToEmpty(line)
                         THEN <<Spaces(indent) \o line>> ELSE <<>>
             children == IF block.has_key THEN block.children ELSE <<>>
             child_content ==
                 IF children # <<>>
                 THEN Join(<<"\n">>, render_blocks_result(children, indent + 2))
                 ELSE <<>>
         IN own \o (IF child_content # <<>> THEN <<child_content>> ELSE <<>>)
                \o render_blocks_result(Tail(blocks), indent)

render_blocks(blocks, indent) ==
    Join(<<"\n">>, render_blocks_result(blocks, indent))

-----------------------------------------------------------------------------
(* WeeklyManager: the blocks of a page *)

\* self.client.get_block_tree(page["id"]): the call starts, after sent
\* requests of which failed have failed, in runs pagination runs
GetBlockTreeCalled(block_id, sent, failed, runs) ==
    /\ pc' = "running"
    /\ op' = "get_block_tree"
    /\ max_depth' = DefaultMaxDepth
    /\ stack' = <<NewFrame(block_id, 0, runs + 1)>>
    /\ nrun' = runs + 1
    /\ log' = sent
    /\ nfail' = failed
    /\ result' = <<>>
    /\ UNCHANGED store

\* a query ends before it has read a bucket, returning value or raising exc;
\* the manager is unchanged (with_dates is set by the query itself)
QueryEnds(name, week_number, value, exc) ==
    /\ called' = name
    /\ argument' = Py("int", week_number)
    /\ returned' = value
    /\ raised' = exc
    /\ query' = NoQuery
    /\ UNCHANGED <<weekly_pages, week_calculation_method, PROJECT_START_DATE,
                   last_pages, last_method, last_start_date, dropped,
                   summarizer, supplied>>
    /\ ClientUnused

\* self.weekly_pages[key] on a defaultdict(list): the mapping after the
\* read, a missing key is added with an empty list
GetItem(mapping, key) ==
    [w \in DOMAIN mapping \cup {key} |->
        IF w \in DOMAIN mapping THEN mapping[w] ELSE <<>>]

\* a query ends after it has read self.weekly_pages[week_number] and found
\* no page in it
QueryReads(name, week_number, value, exc) ==
    /\ called' = name
    /\ argument' = Py("int", week_number)
    /\ returned' = value
    /\ raised' = exc
    /\ query' = NoQuery
    /\ weekly_pages' = GetItem(weekly_pages, week_number)
    /\ UNCHANGED <<week_calculation_method, PROJECT_START_DATE,
                   last_pages, last_method, last_start_date, dropped,
                   summarizer, supplied>>
    /\ ClientUnused

\* a query has read self.weekly_pages[week_number] and asks the client for
\* the blocks of the first page of the bucket; q: its locals
QueryRuns(q) ==
    /\ called' = q.name
    /\ argument' = Py("int", q.week_number)
    /\ returned' = PyNone
    /\ raised' = "none"
    /\ query' = [q EXCEPT !.at = "tree", !.i = 1]
    /\ weekly_pages' = GetItem(weekly_pages, q.week_number)
    /\ UNCHANGED <<week_calculation_method, PROJECT_START_DATE,
                   last_pages, last_method, last_start_date, dropped,
                   summarizer, supplied>>
    /\ GetBlockTreeCalled(weekly_pages[q.week_number][1].id, <<>>, 0, 0)

\* the running query goes on: q are its locals now
QueryGoesOn(q) ==
    /\ query' = q
    /\ UNCHANGED <<returned, raised>>

\* the running query returns value or raises exc
QueryReturns(value, exc) ==
    /\ query' = NoQuery
    /\ returned' = value
    /\ raised' = exc
    /\ ClientRests(log, nfail, nrun)

\* what a step of the running query leaves alone
QueryKeeps ==
    UNCHANGED <<weekly_pages, week_calculation_method, PROJECT_START_DATE,
                last_pages, last_method, last_start_date, dropped,
                summarizer, supplied, called, argument, with_dates>>

\* `if week_number not in self.weekly_pages`
Populated(week_number) == week_number \in DOMAIN weekly_pages

\* faulty variant: the week is read without the membership test
print_week_details_NoGuard(week_number) ==
    /\ query = NoQuery
    /\ with_dates' = {}
    /\ IF GetItem(weekly_pages, week_number)[week_number] = <<>>
       THEN QueryReads("print_week_details", week_number, PyNone, "none")
       ELSE QueryRuns([NoQuery EXCEPT !.name = "print_week_details",
                                      !.week_number = week_number])

\* WeeklyManager.print_week_details(week_number): prints, returns None
print_week_details(week_number) ==
    /\ query = NoQuery
    /\ with_dates' = {}
    /\ IF ~Populated(week_number)
       THEN QueryEnds("print_week_details", week_number, PyNone, "none")
       ELSE IF weekly_pages[week_number] = <<>>
       THEN QueryReads("print_week_details", week_number, PyNone, "none")
       ELSE QueryRuns([NoQuery EXCEPT !.name = "print_week_details",
                                      !.week_number = week_number])

\* the method of the summarizer that summarize_week calls
SummarizerMethod(summary_type) ==
    CASE summary_type = "weekly"   -> "weekly_summarize"
      [] summary_type = "problem"  -> "problem_summarize"
      [] summary_type = "thoughts" -> "thoughts_summarize"
      [] summary_type = "plan"     -> "plan_summarize"
      [] OTHER                     -> "summarize"

SummaryTypes == {"weekly", "problem", "thoughts", "plan", "general"}

\* WeeklyManager.summarize_week(week_number, summary_type); a bucket without
\* pages gives less than 10 characters of content and the summary ""
summarize_week(week_number, summary_type) ==
    /\ query = NoQuery
    /\ with_dates' = {}
    /\ IF ~summarizer
       THEN QueryEnds("summarize_week", week_number, PyNone, "none")
       ELSE IF ~Populated(week_number)
       THEN QueryEnds("summarize_week", week_number, PyNone, "none")
       ELSE IF weekly_pages[week_number] = <<>>
       THEN QueryReads("summarize_week", week_number, Py("str", ""), "none")
       ELSE QueryRuns([NoQuery EXCEPT !.name = "summarize_week",
                                      !.week_number = week_number,
                                      !.summary_type = summary_type])

\* summary_types of generate_week_report, line 314
ReportSummaryTypes == <<"weekly", "problem", "thoughts", "plan">>

\* the dates of the pages that have one, lines 337-341
RECURSIVE PageDatesFrom(_, _)
PageDatesFrom(pages, i) ==
    IF i > Len(pages) THEN <<>>
    ELSE LET page_date == get_page_date(pages[i].properties)
         IN (IF PageDateTruthy(page_date) THEN <<page_date.str>> ELSE <<>>)
                \o PageDatesFrom(pages, i + 1)

\* where generate_week_report takes start_date and end_date from, lines
\* 323-354, given the set of the dates it was passed; raised is
\* "AttributeError" when it calls strftime on None
ReportDatesFrom(pages, given) ==
    LET has_start    == "start_date" \in given
        has_end      == "end_date" \in given
        week_summary == pages[1].date_info.week_summary
        from_summary == /\ ~(has_start /\ has_end)
                        /\ week_calculation_method = "project"
                        /\ pages # <<>>
                        /\ week_summary.present
        from_pages   == IF PageDatesFrom(pages, 1) # <<>> THEN "page dates"
                        ELSE "today"
    IN IF from_summary /\ ~has_start /\ week_summary.start_date = NoDate
       THEN [raised |-> "AttributeError", start_date |-> "", end_date |-> ""]
       ELSE IF from_summary /\ ~has_end /\ week_summary.end_date = NoDate
       THEN [raised |-> "AttributeError", start_date |-> "", end_date |-> ""]
       ELSE [raised     |-> "none",
             start_date |-> IF has_start THEN "argument"
                            ELSE IF from_summary THEN "week_summary"
                            ELSE from_pages,
             end_date   |-> IF has_end THEN "argument"
                            ELSE IF from_summary THEN "week_summary"
                            ELSE from_pages]

\* the empty dictionary that generate_week_report returns
EmptyDict == Py("Dict[str, str]", <<>>)

\* generate_week_report after its four summaries, lines 322-366, up to the
\* call of the report generator; q: its locals
ReportDatesThenGenerator(q, pages) ==
    IF ReportDatesFrom(pages, with_dates).raised # "none"
    THEN QueryReturns(PyNone, ReportDatesFrom(pages, with_dates).raised)
    ELSE /\ QueryGoesOn([q EXCEPT !.at = "generator"])
         /\ ClientRests(log, nfail, nrun)

\* WeeklyManager.generate_week_report(week_number, week_input, start_date,
\* end_date); given: which of start_date and end_date are passed
generate_week_report(week_number, given) ==
    /\ query = NoQuery
    /\ with_dates' = given
    /\ IF ~summarizer
       THEN QueryEnds("generate_week_report", week_number, EmptyDict, "none")
       ELSE IF ~Populated(week_number)
       THEN QueryEnds("generate_week_report", week_number, EmptyDict, "none")
       ELSE IF weekly_pages[week_number] = <<>>
       THEN \* four times the summary "", then the dates of today
            /\ called' = "generate_week_report"
            /\ argument' = Py("int", week_number)
            /\ returned' = PyNone
            /\ raised' = "none"
            /\ query' = [NoQuery EXCEPT !.name = "generate_week_report",
                                        !.week_number = week_number,
                                        !.summary_type = "plan",
                                        !.summaries = <<"", "", "", "">>,
                                        !.at = "generator"]
            /\ ClientUnused
            /\ UNCHANGED <<weekly_pages, week_calculation_method,
                           PROJECT_START_DATE, last_pages, last_method,
                           last_start_date, dropped, summarizer, supplied>>
       ELSE QueryRuns([NoQuery EXCEPT !.name = "generate_week_report",
                                      !.week_number = week_number,
                                      !.summary_type = ReportSummaryTypes[1]])

\* get_block_tree has returned the blocks of page i to the running query:
\* the loop over the pages goes on (lines 152-185 and 219-251)
BlockTreeReturned ==
    /\ query.at = "tree"
    /\ pc = "returned"
    /\ LET pages == weekly_pages[query.week_number]
           q     == [query EXCEPT
                       !.all_content =
                           Append(@, IF result # <<>>
                                     THEN IF ~StripsToEmpty(
                                                 render_blocks(result, 0))
                                          THEN "rendered" ELSE "empty"
                                     ELSE "empty"),
                       !.i = @ + 1]
       IN IF q.i <= Len(pages)
          THEN /\ QueryGoesOn(q)
               /\ GetBlockTreeCalled(pages[q.i].id, log, nfail, nrun)
          ELSE IF q.name = "print_week_details"
          THEN QueryReturns(PyNone, "none")
          ELSE \* the content goes to the summarizer
               /\ QueryGoesOn([q EXCEPT !.at = "summarizer"])
               /\ ClientRests(log, nfail, nrun)
    /\ QueryKeeps

\* the summarizer answers the running summarize_week, lines 261-292;
\* summarizer_ok: it returns the summary rather than raising
SummarizerAnswers(summarizer_ok) ==
    /\ query.at = "summarizer"
    /\ summarizer_ok \/ nfail < FailureLimit
    /\ LET pages   == weekly_pages[query.week_number]
           summary == IF summarizer_ok
                      THEN SummarizerMethod(query.summary_type) ELSE ""
           q       == [query EXCEPT !.summaries = Append(@, summary)]
       IN IF query.name = "summarize_week"
          THEN QueryReturns(Py("str", summary), "none")
          ELSE IF Len(q.summaries) < Len(ReportSummaryTypes)
          THEN \* the next summarize_week of generate_week_report
               /\ QueryGoesOn([q EXCEPT
                     !.summary_type = ReportSummaryTypes[Len(q.summaries) + 1],
                     !.all_content = <<>>,
                     !.i = 1,
                     !.at = "tree"])
               /\ GetBlockTreeCalled(pages[1].id, log, nfail, nrun)
          ELSE ReportDatesThenGenerator(q, pages)
    /\ QueryKeeps

\* the report generator answers the running generate_week_report, lines
\* 356-372; generator_ok: it returns the paths rather than raising
GeneratorAnswers(generator_ok) ==
    /\ query.at = "generator"
    /\ LET pages == weekly_pages[query.week_number]
           dates == ReportDatesFrom(pages, with_dates)
       IN IF generator_ok
          THEN QueryReturns(Py("Dict[str, str]",
                               [report_paths |-> TRUE,
                                start_date   |-> dates.start_date,
                                end_date     |-> dates.end_date]),
                            "none")
          ELSE QueryReturns(EmptyDict, "none")
    /\ QueryKeeps

\* faulty variant: the keys are returned from the largest to the smallest
RECURSIVE sorted_Descending(_)
sorted_Descending(keys) ==
    IF keys = {} THEN <<>>
    ELSE LET largest == CHOOSE k \in keys : \A other \in keys : other <= k
         IN <<largest>> \o sorted_Descending(keys \ {largest})

\* sorted(keys): the keys from the smallest to the largest
RECURSIVE sorted(_)
sorted(keys) ==
    IF keys = {} THEN <<>>
    ELSE LET smallest == CHOOSE k \in keys : \A other \in keys : k <= other
         IN <<smallest>> \o sorted(keys \ {smallest})

\* the mapping after self.weekly_pages[k] has been read for keys[i..]
RECURSIVE GetItems(_, _, _)
GetItems(mapping, keys, i) ==
    IF i > Len(keys) THEN mapping
    ELSE GetItems(GetItem(mapping, keys[i]), keys, i + 1)

\* WeeklyManager.print_weekly_summary(): prints, returns None
print_weekly_summary ==
    /\ called' = "print_weekly_summary"
    /\ argument' = PyNone
    /\ returned' = PyNone
    /\ with_dates' = {}
    /\ query = NoQuery
    /\ UNCHANGED query
    /\ raised' = "none"
    /\ weekly_pages' = IF DOMAIN weekly_pages = {} THEN weekly_pages
                       ELSE GetItems(weekly_pages,
                                     sorted(DOMAIN weekly_pages), 1)
    /\ UNCHANGED <<week_calculation_method, PROJECT_START_DATE,
                   last_pages, last_method, last_start_date, dropped,
                   summarizer, supplied>>
    /\ ClientUnused

\* WeeklyManager.get_available_weeks()
get_available_weeks ==
    /\ called' = "get_available_weeks"
    /\ argument' = PyNone
    /\ returned' = Py("List[int]", sorted(DOMAIN weekly_pages))
    /\ with_dates' = {}
    /\ query = NoQuery
    /\ UNCHANGED query
    /\ raised' = "none"
    /\ UNCHANGED <<weekly_pages, week_calculation_method, PROJECT_START_DATE,
                   last_pages, last_method, last_start_date, dropped,
                   summarizer, supplied>>
    /\ ClientUnused

-----------------------------------------------------------------------------
(* Calls of the DateUtils functions *)

\* the first day of the dates the functions are called on
FirstDate == [year |-> 2025, month |-> 4, day |-> 28]

Dates == {AddDays(FirstDate, n) : n \in 0..MaxDays}

\* the start dates set_project_start_date is given in these calls
AnchorDates == StartDates \cup {[year |-> 2025, month |-> 5, day |-> 14]}

WeekNumbers == (0 - 1)..MaxWeek

\* the date strings of the documents, the empty string included
\* date strings in the forms %d and %Y also accept: "2025-07- 5", and
\* "2025-07-01" with its year in Arabic-Indic digits
BlankAndScriptDates ==
    { <<"2", "0", "2", "5", "-", "0", "7", "-", " ", "5">>,
      <<"U+0662", "U+0660", "U+0662", "U+0665", "-", "0", "7", "-", "0", "1">> }

DateStrings ==
    {get_page_date(Documents[id]).str : id \in DOMAIN Documents}
        \cup BlankAndScriptDates

\* a static method of DateUtils is called and returns: nothing but the
\* record of the call changes
DateUtilsCall(name, arg, value) ==
    /\ called' = name
    /\ argument' = arg
    /\ returned' = value
    /\ with_dates' = {}
    /\ query = NoQuery
    /\ UNCHANGED query
    /\ raised' = "none"
    /\ UNCHANGED <<weekly_pages, week_calculation_method, PROJECT_START_DATE,
                   last_pages, last_method, last_start_date, dropped,
                   summarizer, supplied>>
    /\ ClientUnused

CallMonthly(target_date) ==
    DateUtilsCall("get_week_number_monthly", Py("date", target_date),
                  Py("int", get_week_number_monthly(target_date)))

CallProjectBased(target_date) ==
    DateUtilsCall("get_week_number_project_based", Py("date", target_date),
                  Py("int", get_week_number_project_based(target_date,
                                                          PROJECT_START_DATE)))

CallIso(target_date) ==
    DateUtilsCall("get_week_number_iso", Py("date", target_date),
                  Py("tuple[int, int]", get_week_number_iso(target_date)))

CallWeekSummary(week_number) ==
    DateUtilsCall("get_week_summary", Py("int", week_number),
                  Py("dict", get_week_summary(week_number,
                                              PROJECT_START_DATE)))

CallDateInfo(date_str, method) ==
    DateUtilsCall("get_date_info",
                  Py("str, str", [date_str |-> date_str, method |-> method]),
                  Py("tuple[str, int]",
                     get_date_info(date_str, method, PROJECT_START_DATE)))

-----------------------------------------------------------------------------
(* Specifications *)

\* no client call is in progress
ClientIdle ==
    /\ pc = "idle"
    /\ op = "none"
    /\ store = CHOOSE s \in Stores : TRUE
    /\ max_depth = 0
    /\ stack = <<>>
    /\ log = <<>>
    /\ result = <<>>
    /\ nfail = 0
    /\ nrun = 0

\* WeeklyManager(client, summarizer, week_calculation_method) just built;
\* __init__ stores the method name unchecked
ManagerBuiltWith(method, has_summarizer) ==
    /\ weekly_pages = <<>>
    /\ week_calculation_method = method
    /\ PROJECT_START_DATE = [year |-> 2025, month |-> 7, day |-> 1]
    /\ last_pages = <<>>
    /\ last_method = method
    /\ last_start_date = [year |-> 2025, month |-> 7, day |-> 1]
    /\ raised = "none"
    /\ called = "__init__"
    /\ dropped = FALSE
    /\ summarizer = has_summarizer
    /\ supplied = [year |-> 2025, month |-> 7, day |-> 1]
    /\ argument = PyNone
    /\ returned = PyNone
    /\ with_dates = {}
    /\ query = NoQuery

ManagerBuilt(method) == ManagerBuiltWith(method, TRUE)

InitClient == ClientIdle /\ ManagerBuilt("project")

NextClient ==
    \/ \E o \in Ops, s \in Stores : CallFlat(o, s)
    \/ \E s \in Stores, maxd \in 0..MaxDepthArg : CallGetBlockTree(s, maxd)
    \/ RequestOk
    \/ RequestFail
    \/ ForBlock
    \/ EndFor

SpecClient == InitClient /\ [][NextClient]_vars

\* the running call goes on: the store answers every request, one way or
\* the other, and the interpreter executes the next statement
SpecClientFair ==
    /\ InitClient
    /\ [][NextClient]_vars
    /\ WF_vars(RequestOk \/ RequestFail)
    /\ WF_vars(ForBlock)
    /\ WF_vars(EndFor)

InitWeekly == ClientIdle /\ \E method \in MethodNames : ManagerBuilt(method)

NextWeekly ==
    \/ \E pages \in PageLists : analyze_pages_by_week(pages)
    \/ \E method \in MethodNames : set_week_calculation_method(method)
    \/ \E start_date \in StartDates : set_project_start_date(start_date)

SpecWeekly == InitWeekly /\ [][NextWeekly]_vars

\* the same manager run on the second database
NextJanuary ==
    \/ \E pages \in JanuaryLists : analyze_pages_by_week(pages)
    \/ \E method \in MethodNames : set_week_calculation_method(method)
    \/ \E start_date \in StartDates : set_project_start_date(start_date)

SpecJanuary == InitWeekly /\ [][NextJanuary]_vars

InitDates == ClientIdle /\ ManagerBuilt("project")

NextDates ==
    \/ \E target_date \in Dates : CallMonthly(target_date)
    \/ \E target_date \in Dates : CallProjectBased(target_date)
    \/ \E target_date \in Dates : CallIso(target_date)
    \/ \E week_number \in WeekNumbers : CallWeekSummary(week_number)
    \/ \E date_str \in DateStrings, method \in MethodNames :
           CallDateInfo(date_str, method)
    \/ \E start_date \in AnchorDates : set_project_start_date(start_date)

SpecDates == InitDates /\ [][NextDates]_vars

\* a third database: a page of project week 1 and one dated before the
\* project start
QueryIds == {1, 5}

RECURSIVE QueryListsOfLen(_)
QueryListsOfLen(n) ==
    IF n = 0 THEN {<<>>}
    ELSE {Append(l, Page(id)) :
            l \in QueryListsOfLen(n - 1),
            id \in QueryIds} \ 
         {Append(l, l[j]) : l \in QueryListsOfLen(n - 1), j \in 1..(n - 1)}

QueryLists == UNION {QueryListsOfLen(n) : n \in 0..MaxPages}

QueryWeeks == 0..MaxQueryWeek

\* no client call is in progress; the client reads the workspace of the
\* queries
QueryClientIdle ==
    /\ pc = "idle"
    /\ op = "none"
    /\ store \in QueryStores
    /\ max_depth = 0
    /\ stack = <<>>
    /\ log = <<>>
    /\ result = <<>>
    /\ nfail = 0
    /\ nrun = 0

InitQueries ==
    /\ QueryClientIdle
    /\ \E method \in MethodNames, has_summarizer \in BOOLEAN :
          ManagerBuiltWith(method, has_summarizer)

NextQueries ==
    \/ \E pages \in QueryLists : analyze_pages_by_week(pages)
    \/ \E method \in MethodNames : set_week_calculation_method(method)
    \/ \E week_number \in QueryWeeks : print_week_details(week_number)
    \/ \E week_number \in QueryWeeks, summary_type \in SummaryTypes :
           summarize_week(week_number, summary_type)
    \/ \E week_number \in QueryWeeks,
          given \in SUBSET {"start_date", "end_date"} :
           generate_week_report(week_number, given)
    \/ print_weekly_summary
    \/ get_available_weeks
    \/ RequestOk
    \/ RequestFail
    \/ ForBlock
    \/ EndFor
    \/ BlockTreeReturned
    \/ \E summarizer_ok \in BOOLEAN : SummarizerAnswers(summarizer_ok)
    \/ \E generator_ok \in BOOLEAN : GeneratorAnswers(generator_ok)

SpecQueries == InitQueries /\ [][NextQueries]_vars

\* the manager in a process where another party also sets the start date
NextShared ==
    \/ \E pages \in QueryLists : analyze_pages_by_week(pages)
    \/ \E method \in MethodNames : set_week_calculation_method(method)
    \/ \E start_date \in StartDates : set_project_start_date(start_date)
    \/ \E start_date \in StartDates :
           set_project_start_date_by_other(start_date)

SpecShared == InitWeekly /\ [][NextShared]_vars

-----------------------------------------------------------------------------
(* Properties of NotionClient *)

FlatOps == {"query_database_all", "get_page_content_flat"}

\* the requests that failed
FailedRequests == {j \in DOMAIN log : ~log[j].ok}

\* the unpaginated listing of the root
AllItems(s) == [j \in 1..Len(s.kids[RootId]) |-> StoreItem(s, s.kids[RootId][j])]

\* the store's parent-child relation has no cycle
RECURSIVE Below(_, _, _)
Below(s, id, n) ==
    IF n = 0 THEN {}
    ELSE LET direct == {s.kids[id][j] : j \in DOMAIN s.kids[id]}
         IN direct \cup UNION {Below(s, c, n - 1) : c \in direct}

Acyclic(s) == \A id \in DOMAIN s.kids : id \notin Below(s, id, Len(s.kids))

\* the tree below id with every listing complete, except that the nodes in
\* `lost` have an empty children list; depth counts as in get_block_tree
RECURSIVE ExpectedTree(_, _, _, _, _)
ExpectedTree(s, id, depth, maxd, lost) ==
    [j \in DOMAIN s.kids[id] |->
        LET c == s.kids[id][j]
        IN IF HasChildrenFlag(s, c) /\ depth < maxd - 1
           THEN [StoreItem(s, c) EXCEPT
                   !.has_key = TRUE,
                   !.children = IF c \in lost THEN <<>>
                                ELSE ExpectedTree(s, c, depth + 1, maxd, lost)]
           ELSE StoreItem(s, c)]

\* number of levels of a list of blocks
RECURSIVE Height(_)
Height(blocks) ==
    IF blocks = <<>> THEN 0
    ELSE LET hs == {Height(blocks[j].children) : j \in DOMAIN blocks}
         IN 1 + CHOOSE h \in hs : \A g \in hs : g <= h

\* the blocks of a list that lie exactly n levels down (n >= 1)
RECURSIVE AtLevel(_, _)
AtLevel(blocks, n) ==
    IF n = 1 THEN {blocks[j] : j \in DOMAIN blocks}
    ELSE UNION {AtLevel(blocks[j].children, n - 1) : j \in DOMAIN blocks}

\* the items of the pages a run received, in request order
RECURSIVE ConcatPages(_, _)
ConcatPages(s, n) ==
    IF n = 0 THEN <<>>
    ELSE ConcatPages(s, n - 1) \o
         (IF log[n].ok THEN Response(s, log[n].block_id, log[n].start_cursor).results
          ELSE <<>>)

\* C1 (as claimed): when a request for the root's own children listing fails,
\* on the first or on a later page, get_block_tree ends with the error raised
\* and returns no tree.
C1_RootFailureRaises ==
    (/\ op = "get_block_tree"
     /\ pc \in {"returned", "raised"}
     /\ \E j \in FailedRequests : log[j].run = 1)
        => pc = "raised"

\* C2 (as claimed): get_block_tree(id, max_depth = 0) returns every direct
\* child of id in source order, each with no children populated.
C2_DepthZeroListsChildren ==
    (op = "get_block_tree" /\ max_depth = 0 /\ pc = "returned"
        /\ store.cursors = "ok")
        => result = AllItems(store)

\* C3 (as claimed): when listings of descendants fail (at any page) and no
\* request for the root's own listing does, the returned tree is the complete
\* tree except that exactly the failed nodes have an empty children list.
C3_DescendantFailureIsolated ==
    (/\ op = "get_block_tree"
     /\ pc = "returned"
     /\ store.cursors = "ok"
     /\ Acyclic(store)
     /\ FailedRequests # {}
     /\ \A j \in FailedRequests : log[j].run # 1)
        => result = ExpectedTree(store, RootId, 0, max_depth,
                                 {log[j].block_id : j \in FailedRequests})

\* C4: for max_depth >= 1 no request is sent for a node at the depth limit
\* (max_depth levels below the root) or deeper, the returned tree has at most
\* max_depth levels, a node at the limit is a leaf even when flagged as
\* having children, and the call never raises.
C4_DepthBounded ==
    (op = "get_block_tree" /\ max_depth >= 1) =>
        /\ \A j \in DOMAIN log : log[j].level < max_depth
        /\ pc # "raised"
        /\ pc = "returned" =>
              /\ Height(result) <= max_depth
              /\ \A b \in AtLevel(result, max_depth) :
                    ~b.has_key /\ b.children = <<>>

C4_Witness ==
    /\ op = "get_block_tree" /\ pc = "returned"
    /\ max_depth = 2
    /\ nfail = 0
    /\ \E b \in AtLevel(result, max_depth) : b.has_children
    /\ \E j \in DOMAIN log : log[j].level = max_depth - 1

\* C5: query_database_all and get_page_content_flat return exactly the
\* concatenation of the pages they received, in request order; against a
\* store that pages an item sequence soundly this is the whole sequence; and
\* no page is requested after one whose has_more is false.
C5_PaginationConcatenates ==
    op \in FlatOps =>
        /\ \A j \in 1..(Len(log) - 1) :
              /\ log[j].ok
              /\ Response(store, log[j].block_id, log[j].start_cursor).has_more
        /\ pc = "returned" =>
              /\ result = ConcatPages(store, Len(log))
              /\ ~Response(store, log[Len(log)].block_id,
                           log[Len(log)].start_cursor).has_more
              /\ store.cursors = "ok" => result = AllItems(store)

C5_Witness ==
    /\ op = "get_page_content_flat" /\ pc = "returned"
    /\ store.k = 2
    /\ Len(log) = 2
    /\ Len(result) = 3

\* C6: when a page request of query_database_all or get_page_content_flat
\* fails, the call ends with the error raised and returns no list; the items
\* of the pages fetched before are gone with its frame.
C6_FlatFailureRaises ==
    (op \in FlatOps /\ FailedRequests # {}) =>
        /\ pc = "raised"
        /\ result = <<>>
        /\ stack = <<>>

C6_Witness ==
    /\ op = "query_database_all" /\ pc = "raised"
    /\ Len(log) = 3
    /\ ~log[3].ok
    /\ Response(store, log[1].block_id, log[1].start_cursor).results # <<>>

\* C7 (as claimed): within one pagination run no cursor value, the absent
\* first-page cursor included, is sent twice, whatever the store answers.
C7_NoCursorSentTwice ==
    \A i, j \in DOMAIN log :
        (i < j /\ log[i].run = log[j].run)
            => log[i].start_cursor # log[j].start_cursor

-----------------------------------------------------------------------------
(* Properties of WeeklyManager *)

\* the places <<week, index>> of the bucket mapping
Slots ==
    UNION {{<<w, j>> : j \in DOMAIN weekly_pages[w]} : w \in DOMAIN weekly_pages}

\* how often the page with this id occurs in the buckets
Occurrences(id) ==
    Cardinality({sl \in Slots : weekly_pages[sl[1]][sl[2]].id = id})

\* the date properties of a page that carry a date, by position
DatePositions(page) ==
    {i \in DOMAIN page.properties :
        page.properties[i].type = "date" /\ page.properties[i].has_date}

\* the page has a date: its first filled date property has a non-empty start
HasDate(page) ==
    /\ DatePositions(page) # {}
    /\ LET first == CHOOSE i \in DatePositions(page) :
                        \A j \in DatePositions(page) : i <= j
       IN page.properties[first].start # <<>>

\* the page has a date string that parse_notion_date cannot parse
HasMalformedDate(page) ==
    /\ HasDate(page)
    /\ parse_notion_date(get_page_date(page.properties).str) = NoDate

\* C8 (as claimed): a document whose date string is non-empty but malformed
\* is in no bucket after analyze_pages_by_week, under any policy.
C8_MalformedDateExcluded ==
    \A sl \in Slots : ~HasMalformedDate(weekly_pages[sl[1]][sl[2]])

\* C9: after analyze_pages_by_week over distinct documents, a document with
\* a date occupies exactly one place of the buckets, a document without one
\* occupies none, the bucket sizes sum to the number of dated documents, and
\* the call raises nothing.
C9_OneBucketPerDatedPage ==
    /\ \A i \in DOMAIN last_pages :
          Occurrences(last_pages[i].id) =
              IF HasDate(last_pages[i]) THEN 1 ELSE 0
    /\ Cardinality(Slots) =
          Cardinality({i \in DOMAIN last_pages : HasDate(last_pages[i])})
    /\ called = "analyze_pages_by_week" => raised = "none"

C9_Witness ==
    /\ called = "analyze_pages_by_week"
    /\ Len(last_pages) = 2
    /\ HasDate(last_pages[1]) /\ ~HasDate(last_pages[2])
    /\ Cardinality(Slots) = 1

\* C10: after any sequence of analyze_pages_by_week calls the bucket mapping
\* is the one a fresh aggregator builds from the last call's documents under
\* the last call's policy: every key and every document in it comes from the
\* last call.
C10_TotalReplace ==
    /\ weekly_pages = AnalyzeFrom(last_pages, 1, <<>>, last_method,
                                  last_start_date)
    /\ \A sl \in Slots :
          /\ \E i \in DOMAIN last_pages :
                last_pages[i].id = weekly_pages[sl[1]][sl[2]].id
          /\ weekly_pages[sl[1]][sl[2]].date_info.week_number = sl[1]
          /\ weekly_pages[sl[1]][sl[2]].date_info =
                DateInfo(get_page_date(weekly_pages[sl[1]][sl[2]].properties).str,
                         last_method, last_start_date)

C10_Witness ==
    /\ called = "analyze_pages_by_week"
    /\ dropped
    /\ last_method = "iso"
    /\ last_start_date # [year |-> 2025, month |-> 7, day |-> 1]
    /\ Cardinality(DOMAIN weekly_pages) = 2

\* C11: a call of set_week_calculation_method, valid or not, leaves the bucket
\* mapping (keys, contents and the metadata on the documents) and the start
\* date as they were, and only a valid name becomes the active method; the
\* mapping changes in no step other than a call of analyze_pages_by_week.
C11_MethodChangeKeepsBuckets ==
    [][ /\ called' = "set_week_calculation_method" =>
              /\ weekly_pages' = weekly_pages
              /\ PROJECT_START_DATE' = PROJECT_START_DATE
              /\ week_calculation_method' # week_calculation_method =>
                    /\ raised' = "none"
                    /\ week_calculation_method' \in {"project", "monthly", "iso"}
        /\ weekly_pages' # weekly_pages => called' = "analyze_pages_by_week"
      ]_vars

C11_Witness ==
    /\ called = "set_week_calculation_method"
    /\ raised = "none"
    /\ week_calculation_method = "monthly"
    /\ last_method = "project"
    /\ Cardinality(DOMAIN weekly_pages) = 2
    /\ weekly_pages # AnalyzeFrom(last_pages, 1, <<>>, week_calculation_method,
                                  PROJECT_START_DATE)

-----------------------------------------------------------------------------
(* Properties of DateUtils *)

\* the 1st of the month of a date
FirstOfMonth(d) == [d EXCEPT !.day = 1]

\* C12 (as claimed): in a month whose 1st is a Thursday (first Monday on the
\* 5th) get_week_number_monthly gives week 1 for the 1st, week 2 for the 5th
\* and week 3 for the 12th.
C12_ThursdayMonthWeeks ==
    (/\ called = "get_week_number_monthly"
     /\ Weekday(FirstOfMonth(ValueOf(argument))) = 3)
        => /\ ValueOf(argument).day = 1 => ValueOf(returned) = 1
           /\ ValueOf(argument).day = 5 => ValueOf(returned) = 2
           /\ ValueOf(argument).day = 12 => ValueOf(returned) = 3

\* the first Monday on or after the 1st of the month of d: the one day among
\* the first seven of the month that is a Monday
FirstMonday(d) ==
    CHOOSE m \in {[d EXCEPT !.day = k] : k \in 1..7} : Weekday(m) = 0

\* C13: get_week_number_monthly(d) is 1 when d precedes the first Monday on
\* or after the 1st of its month, and otherwise the w with
\* 7 * (w - 1) <= d - firstMonday < 7 * w, that is floor((d - firstMonday) / 7)
\* + 1; it is at least 1 for every date.
C13_MonthlyFormula ==
    called = "get_week_number_monthly" =>
        LET d == ValueOf(argument)
            m == FirstMonday(d)
        IN /\ ValueOf(returned) >= 1
           /\ d.day < m.day => ValueOf(returned) = 1
           /\ d.day >= m.day =>
                 /\ 7 * (ValueOf(returned) - 1) <= d.day - m.day
                 /\ d.day - m.day < 7 * ValueOf(returned)

C13_Witness ==
    /\ called = "get_week_number_monthly"
    /\ ValueOf(argument).day >= FirstMonday(ValueOf(argument)).day
    /\ FirstMonday(ValueOf(argument)).day = 7
    /\ ValueOf(returned) = 4

\* d is an earlier calendar day than e
Before(d, e) ==
    \/ d.year < e.year
    \/ d.year = e.year /\ d.month < e.month
    \/ d.year = e.year /\ d.month = e.month /\ d.day < e.day

Ymd(y, m, d) == [year |-> y, month |-> m, day |-> d]

\* C14: with anchor a = PROJECT_START_DATE, get_week_number_project_based(d)
\* is 0 exactly when d < a, and otherwise the w >= 1 with
\* a + 7 * (w - 1) <= d < a + 7 * w, that is floor((d - a) / 7) + 1; with
\* a = 2025-07-01 it is 1 for 2025-07-01, 2 for 2025-07-08, 0 for 2025-06-30.
C14_ProjectFormula ==
    called = "get_week_number_project_based" =>
        LET d == ValueOf(argument)
            a == PROJECT_START_DATE
            w == ValueOf(returned)
        IN /\ w = 0 <=> Before(d, a)
           /\ ~Before(d, a) =>
                 /\ w >= 1
                 /\ ~Before(d, AddDays(a, 7 * (w - 1)))
                 /\ Before(d, AddDays(a, 7 * w))
           /\ a = Ymd(2025, 7, 1) =>
                 /\ d = Ymd(2025, 7, 1) => w = 1
                 /\ d = Ymd(2025, 7, 8) => w = 2
                 /\ d = Ymd(2025, 6, 30) => w = 0

C14_Witness ==
    /\ called = "get_week_number_project_based"
    /\ PROJECT_START_DATE = Ymd(2025, 7, 1)
    /\ ValueOf(argument) = Ymd(2025, 7, 8)
    /\ ValueOf(returned) = 2

\* the date range that the claim derives for week w under anchor a
ClaimedRange(w, a) ==
    [start_date |-> AddDays(a, 7 * (w - 1)),
     end_date   |-> AddDays(AddDays(a, 7 * (w - 1)), 6)]

\* the start and end date of a week summary
RangeOf(week_summary) ==
    [start_date |-> week_summary.start_date,
     end_date   |-> week_summary.end_date]

\* C15 (as claimed): every week number the project policy assigns, week 0
\* included, gets the range [anchor + (w - 1) * 7, start + 6] attached.
C15_EveryWeekHasRange ==
    last_method = "project" =>
        \A sl \in Slots :
            RangeOf(weekly_pages[sl[1]][sl[2]].date_info.week_summary)
                = ClaimedRange(sl[1], last_start_date)

\* for each anchor: get_week_summary gives every week from 1 on the claimed
\* range, and week 0 no range
RangesFrom ==
    [a \in StartDates |->
        /\ \A w \in 1..MaxWeek :
              RangeOf(get_week_summary(w, a)) = ClaimedRange(w, a)
        /\ RangeOf(get_week_summary(0, a))
              = [start_date |-> NoDate, end_date |-> NoDate]]

\* C15 (amended): for every week number w >= 1 the derived range is
\* start = anchor + (w - 1) * 7 days, end = start + 6 days (week 1 with anchor
\* 2025-07-01 gives [2025-07-01, 2025-07-07]); for week 0, which the project
\* policy assigns too, the summary carries no start and no end date; the
\* documents classified under project carry the summary of their week for
\* the anchor of that run, and under monthly and iso
\* analyze_pages_by_week attaches no summary at all.
C15_RangeFromWeekOne ==
    /\ RangesFrom[PROJECT_START_DATE]
    /\ RangeOf(get_week_summary(1, Ymd(2025, 7, 1)))
          = [start_date |-> Ymd(2025, 7, 1), end_date |-> Ymd(2025, 7, 7)]
    /\ \A sl \in Slots :
          LET week_summary ==
                  weekly_pages[sl[1]][sl[2]].date_info.week_summary
          IN /\ last_method \in {"monthly", "iso"} => week_summary = NoSummary
             /\ last_method = "project" =>
                   /\ week_summary.present
                   /\ week_summary.week_number = sl[1]
                   /\ RangeOf(week_summary) =
                         IF sl[1] >= 1
                         THEN ClaimedRange(sl[1], last_start_date)
                         ELSE [start_date |-> NoDate, end_date |-> NoDate]

C15_Witness ==
    /\ called = "analyze_pages_by_week"
    /\ last_method = "project"
    /\ last_start_date = Ymd(2025, 6, 24)
    /\ DOMAIN weekly_pages = {0, 3}
    /\ weekly_pages[3][1].date_info.week_summary.start_date = Ymd(2025, 7, 8)
    /\ weekly_pages[3][1].date_info.week_summary.end_date = Ymd(2025, 7, 14)

\* ISO 8601: the week of a date is the week of the Thursday of its
\* Monday-to-Sunday week, counted within that Thursday's year
IsoThursday(d) == AddDays(d, 3 - Weekday(d))

IsoYearOf(d) == IsoThursday(d).year

IsoWeekOf(d) ==
    LET th == IsoThursday(d)
    IN ((ToOrdinal(th) - ToOrdinal(Ymd(th.year, 1, 1))) \div 7) + 1

\* the parsed date of a page that has one
DateOf(page) == parse_notion_date(get_page_date(page.properties).str)

\* the bucket keys under which a page is found
KeysOf(id) == {sl[1] : sl \in {t \in Slots : weekly_pages[t[1]][t[2]].id = id}}

\* C16: under the iso policy the bucket key of a document with a valid date
\* is the ISO week number of the date without the ISO year, so two documents
\* of the same ISO week number are in the same bucket whatever their ISO
\* years are.
C16_IsoKeyDropsYear ==
    last_method = "iso" =>
        /\ \A sl \in Slots :
              LET page == weekly_pages[sl[1]][sl[2]]
              IN DateOf(page) # NoDate => sl[1] = IsoWeekOf(DateOf(page))
        /\ \A i, j \in DOMAIN last_pages :
              (/\ HasDate(last_pages[i]) /\ HasDate(last_pages[j])
               /\ DateOf(last_pages[i]) # NoDate
               /\ DateOf(last_pages[j]) # NoDate
               /\ IsoWeekOf(DateOf(last_pages[i]))
                     = IsoWeekOf(DateOf(last_pages[j])))
                  => KeysOf(last_pages[i].id) = KeysOf(last_pages[j].id)

C16_Witness ==
    /\ called = "analyze_pages_by_week"
    /\ last_method = "iso"
    /\ DOMAIN weekly_pages = {2}
    /\ Len(weekly_pages[2]) = 2
    /\ IsoYearOf(DateOf(weekly_pages[2][1])) = 2024
    /\ IsoYearOf(DateOf(weekly_pages[2][2])) = 2025

\* the ids of a list of pages
IdsOf(pages) == [j \in DOMAIN pages |-> pages[j].id]

\* the place of a page in the list given to the last analyze_pages_by_week
PlaceOf(id) == CHOOSE i \in DOMAIN last_pages : last_pages[i].id = id

\* the pages of a list whose id is in ids, in the order of the list
RECURSIVE Restrict(_, _)
Restrict(seq, ids) ==
    IF seq = <<>> THEN <<>>
    ELSE (IF Head(seq) \in ids THEN <<Head(seq)>> ELSE <<>>)
             \o Restrict(Tail(seq), ids)

\* C17: in every bucket the documents stand in the relative order they have
\* in the input list; for the three documents of ISO weeks W01, W02, W02 in
\* any input order, under iso bucket 2 holds exactly the two W02 documents in
\* their input order (and bucket 1 the W01 document).
C17_BucketKeepsInputOrder ==
    /\ \A w \in DOMAIN weekly_pages :
          \A j, k \in DOMAIN weekly_pages[w] :
              j < k => PlaceOf(weekly_pages[w][j].id)
                          < PlaceOf(weekly_pages[w][k].id)
    /\ (last_method = "iso" /\ Len(last_pages) = 3) =>
          /\ DOMAIN weekly_pages = {1, 2}
          /\ IdsOf(weekly_pages[2]) = Restrict(IdsOf(last_pages), {5, 6})
          /\ IdsOf(weekly_pages[1]) = <<7>>

C17_Witness ==
    /\ called = "analyze_pages_by_week"
    /\ last_method = "iso"
    /\ IdsOf(last_pages) = <<6, 7, 5>>
    /\ IdsOf(weekly_pages[2]) = <<6, 5>>

-----------------------------------------------------------------------------
(* Properties of the week queries *)

QueryNames == {"print_week_details", "summarize_week", "generate_week_report"}

\* C18 (as claimed): a query for a week that is not in the bucket mapping
\* ends with an error raised (NotFound), it does not return normally.
C18_UnpopulatedWeekRaises ==
    (called \in QueryNames /\ ~Populated(ValueOf(argument))) => raised # "none"

\* C19 (as claimed): no classification is performed under a policy name
\* outside {project, monthly, iso}: whenever analyze_pages_by_week has put a
\* page into a bucket, the manager's active method was one of the three names.
C19_OnlyValidPolicyClassifies ==
    (called = "analyze_pages_by_week" /\ DOMAIN weekly_pages # {})
        => last_method \in {"project", "monthly", "iso"}

-----------------------------------------------------------------------------
(* Properties of the shared start date *)

\* C20 (as claimed): a project classification is a function of the document
\* list, the policy and the anchor supplied for it only: after
\* analyze_pages_by_week under project the buckets (keys and week ranges) are
\* those computed from the start date this manager's owner supplied, whatever
\* start date another party of the process has set in between.
C20_AnchorIsOwn ==
    (called = "analyze_pages_by_week" /\ last_method = "project")
        => weekly_pages = AnalyzeFrom(last_pages, 1, <<>>, "project", supplied)

-----------------------------------------------------------------------------
(* Properties of the list of available weeks *)

\* the week numbers that hold at least one document
WeeksWithDocuments ==
    {w \in DOMAIN weekly_pages : Len(weekly_pages[w]) >= 1}

\* C21: get_available_weeks returns exactly the week numbers that hold at
\* least one document of the last analysis (week 0 among them when it is
\* populated), each once and in ascending order.
C21_AvailableWeeksSorted ==
    called = "get_available_weeks" =>
        LET weeks == ValueOf(returned)
        IN /\ {weeks[i] : i \in DOMAIN weeks} = WeeksWithDocuments
           /\ WeeksWithDocuments
                 = DOMAIN AnalyzeFrom(last_pages, 1, <<>>, last_method,
                                      last_start_date)
           /\ \A i, j \in DOMAIN weeks : i < j => weeks[i] < weeks[j]

C21_Witness ==
    /\ called = "get_available_weeks"
    /\ ValueOf(returned) = <<0, 1>>

-----------------------------------------------------------------------------
(* Properties of the order of the requests *)

\* the activation below stack[n + 1] waits in its for loop at the block whose
\* children stack[n + 1] lists
Suspended(n) ==
    /\ stack[n].at = "for"
    /\ stack[n].i \in DOMAIN stack[n].data.results
    /\ stack[n].data.results[stack[n].i].id = stack[n + 1].block_id
    /\ stack[n].run < stack[n + 1].run

\* C22: get_block_tree sends its requests one at a time and depth first: an
\* activation lists a child only while every enclosing activation waits at
\* that child's ancestor in a page it has received; a request goes at most
\* one level below the one before it; between two requests of one activation
\* (two pages of one listing) every request is for a deeper level, that is
\* for the subtrees of the children received so far; and once a later
\* activation of the same or a higher level has sent a request, an earlier
\* one sends no more (only a waiting ancestor goes on).
C22_DepthFirstRequests ==
    op = "get_block_tree" =>
        /\ \A n \in 1..(Len(stack) - 1) : Suspended(n)
        /\ \A i, j \in DOMAIN log :
              i < j =>
                /\ j = i + 1 => log[j].level <= log[i].level + 1
                /\ log[i].run = log[j].run =>
                      \A k \in i..j :
                          /\ log[k].level >= log[i].level
                          /\ log[k].level = log[i].level
                                => log[k].run = log[i].run
                /\ log[j].run < log[i].run => log[j].level < log[i].level
                /\ log[j].run > log[i].run =>
                      \A k \in j..Len(log) : log[k].run # log[i].run
                         \/ log[j].level > log[i].level

C22_Witness ==
    /\ op = "get_block_tree"
    /\ pc = "returned"
    /\ nfail = 0
    /\ [n \in DOMAIN log |-> log[n].block_id] = <<1, 2, 1, 1>>
    /\ [n \in DOMAIN log |-> log[n].level] = <<0, 1, 0, 0>>

-----------------------------------------------------------------------------
(* Properties of the recursion *)

\* the listing of parent, followed from cursor as the client follows it,
\* reaches a page without has_more within n further pages
RECURSIVE EndsWithin(_, _, _, _)
EndsWithin(s, parent, cursor, n) ==
    LET data == Response(s, parent, StartCursorParam(cursor))
    IN IF ~data.has_more THEN TRUE
       ELSE IF n = 0 THEN FALSE
       ELSE EndsWithin(s, parent, NextCursor(data), n - 1)

\* every node's child listing ends after finitely many pages
FiniteListings(s) ==
    \A parent \in DOMAIN s.kids : EndsWithin(s, parent, None, Len(Tokens))

\* C23: against a store whose listings all end, get_block_tree returns for
\* every max_depth, also when a node is listed among its own descendants;
\* and the activations nested on the call stack are never more than
\* max_depth (a call whose depth has reached max_depth returns at its first
\* statement and starts no listing).
C23_TerminatesWithinDepth ==
    /\ [](op = "get_block_tree" => Len(stack) <= max_depth)
    /\ (op = "get_block_tree" /\ pc = "running" /\ FiniteListings(store))
          ~> (pc = "returned")

C23_Witness ==
    /\ op = "get_block_tree"
    /\ pc = "returned"
    /\ max_depth = 3
    /\ store.kids = << <<2>>, <<3>>, <<2>>, <<>>, <<>> >>
    /\ nfail = 0
    /\ [n \in DOMAIN log |-> log[n].block_id] = <<1, 2, 3>>
    /\ result[1].children[1].children[1].id = 2

-----------------------------------------------------------------------------
(* Properties relating the week number and the week range *)

\* for each anchor: the ranges of two different weeks from 1 on share no day
RangesApart ==
    [a \in AnchorDates |->
        \A w1, w2 \in 1..MaxWeek :
            w1 < w2 => Before(get_week_summary(w1, a).end_date,
                              get_week_summary(w2, a).start_date)]

\* C24: with anchor a = PROJECT_START_DATE and a date d >= a, the range of
\* get_week_summary(w) for w = get_week_number_project_based(d) contains d
\* (start_date <= d <= end_date), and the ranges of two different week
\* numbers >= 1 never overlap.
C24_WeekInsideItsRange ==
    /\ RangesApart[PROJECT_START_DATE]
    /\ (/\ called = "get_week_number_project_based"
        /\ ~Before(ValueOf(argument), PROJECT_START_DATE))
          => LET d == ValueOf(argument)
                 range == get_week_summary(ValueOf(returned),
                                           PROJECT_START_DATE)
             IN /\ ~Before(d, range.start_date)
                /\ ~Before(range.end_date, d)

C24_Witness ==
    /\ called = "get_week_number_project_based"
    /\ PROJECT_START_DATE = Ymd(2025, 6, 24)
    /\ ValueOf(argument) = Ymd(2025, 7, 7)
    /\ ValueOf(returned) = 2
    /\ get_week_summary(2, PROJECT_START_DATE).end_date = Ymd(2025, 7, 7)

-----------------------------------------------------------------------------
(* Properties of the bucket mapping under queries *)

\* C25: after any sequence of analyses, method changes and queries, for
\* populated and unpopulated week numbers, every key of weekly_pages maps to
\* a non-empty list: no query leaves an empty bucket behind, and
\* get_available_weeks lists no week without documents.
C25_NoEmptyBucket ==
    /\ \A w \in DOMAIN weekly_pages : weekly_pages[w] # <<>>
    /\ called = "get_available_weeks" =>
          \A i \in DOMAIN ValueOf(returned) :
              /\ ValueOf(returned)[i] \in DOMAIN weekly_pages
              /\ Len(weekly_pages[ValueOf(returned)[i]]) >= 1

C25_Witness ==
    /\ called = "print_week_details"
    /\ ValueOf(argument) = 3
    /\ DOMAIN weekly_pages = {0, 1}

-----------------------------------------------------------------------------
(* Properties of the report of a week *)

\* every document of the last analysis carries a date that parses
AllDatesValid ==
    \A i \in DOMAIN last_pages :
        parse_notion_date(get_page_date(last_pages[i].properties).str)
            # NoDate

\* C26 (as claimed): with a summarizer set, generate_week_report called
\* without start_date and end_date for a populated week raises nothing,
\* under every policy, bucket 0 under project included (here for analyses
\* of documents whose dates all parse).
C26_ReportNeverRaises ==
    (/\ called = "generate_week_report"
     /\ summarizer
     /\ with_dates = {}
     /\ Populated(ValueOf(argument))
     /\ AllDatesValid)
        => raised = "none"

-----------------------------------------------------------------------------
(* Properties of a rejected method change *)

\* C27: set_week_calculation_method(m) with m outside {project, monthly,
\* iso} raises ValueError and leaves the manager as it was: the active
\* method is the previous one and the bucket mapping is untouched.
C27_InvalidMethodRejected ==
    [][(/\ called' = "set_week_calculation_method"
        /\ ValueOf(argument') \notin {"project", "monthly", "iso"})
          => /\ raised' = "ValueError"
             /\ week_calculation_method' = week_calculation_method
             /\ weekly_pages' = weekly_pages
             /\ summarizer' = summarizer
             /\ PROJECT_START_DATE' = PROJECT_START_DATE]_vars

C27_Witness ==
    /\ called = "set_week_calculation_method"
    /\ ValueOf(argument) = "quarterly"
    /\ raised = "ValueError"
    /\ week_calculation_method = "iso"
    /\ DOMAIN weekly_pages # {}

\* the day on which the search loop of get_week_number_monthly leaves
\* first_monday for the month of d
FoundMonday(d) == FirstMondayFrom(FirstOfMonth(d), FirstOfMonth(d), d)

\* C28: for every date d, get_week_number_monthly(d) lies in 1..5 and no
\* earlier day of the same month has a larger week number; the search for the
\* first Monday ends on a Monday between the 1st and the 7th of d's own month.
\* The fallback leaves the 1st of a month whose 1st is not a Monday, so ending
\* on a Monday means the fallback was not taken.
C28_MonthlyWeekInMonth ==
    called = "get_week_number_monthly" =>
        LET d == ValueOf(argument)
        IN /\ ValueOf(returned) \in 1..5
           /\ \A k \in 1..d.day :
                  get_week_number_monthly([d EXCEPT !.day = k])
                      <= ValueOf(returned)
           /\ Weekday(FoundMonday(d)) = 0
           /\ FoundMonday(d).year = d.year
           /\ FoundMonday(d).month = d.month
           /\ FoundMonday(d).day \in 1..7

C28_Witness ==
    /\ called = "get_week_number_monthly"
    /\ Weekday(FirstOfMonth(ValueOf(argument))) # 0
    /\ FoundMonday(ValueOf(argument)).day = 2
    /\ ValueOf(argument).day = 30
    /\ ValueOf(returned) = 5

=============================================================================
